---- MODULE Spec2Model ----
(***************************************************************************)
(* Model of the offset-map visualizer (LaiWX/TP_Mapping).                 *)
(*                                                                         *)
(* Two programs are modelled, each a Qt main window owning a matplotlib    *)
(* canvas:                                                                 *)
(*   mapping_visualizer.py  (MappingVisualizer + MatplotlibCanvas)         *)
(*   mapping_matplotlib.py  (MappingMatplotlibVisualizer + its canvas)     *)
(* The variable `program` says which of the two is running; every handler  *)
(* of a program is one action.                                             *)
(*                                                                         *)
(* Python floats are modelled as exact rationals <<n, d>> with d > 0 in    *)
(* lowest terms; NaN is <<0, 0>>.  Python dicts are modelled as sequences  *)
(* of <<key, value>> pairs in insertion order, because the code's          *)
(* last-write-wins effects depend on the iteration order of dicts.         *)
(***************************************************************************)
EXTENDS Integers, Sequences, FiniteSets, TLC

(***************************************************************************)
(* Floats as rationals                                                     *)
(***************************************************************************)
Abs(n) == IF n < 0 THEN -n ELSE n

RECURSIVE Gcd(_, _)
Gcd(a, b) == IF b = 0 THEN a ELSE Gcd(b, a % b)

NaN == <<0, 0>>

IsNaN(r) == r[2] = 0

\* the float n/d, in lowest terms with a positive denominator
Rat(n, d) ==
    IF d = 0 THEN NaN
    ELSE LET g == Gcd(Abs(n), Abs(d))
             s == IF d < 0 THEN -1 ELSE 1
         IN  <<(s * n) \div g, (s * d) \div g>>

RInt(n) == <<n, 1>>

RAdd(a, b) == IF IsNaN(a) \/ IsNaN(b) THEN NaN
              ELSE Rat(a[1] * b[2] + b[1] * a[2], a[2] * b[2])

RNeg(a) == IF IsNaN(a) THEN NaN ELSE <<-a[1], a[2]>>

RSub(a, b) == RAdd(a, RNeg(b))

RMul(a, b) == IF IsNaN(a) \/ IsNaN(b) THEN NaN
              ELSE Rat(a[1] * b[1], a[2] * b[2])

\* a / b for b # 0
RDiv(a, b) == IF IsNaN(a) \/ IsNaN(b) THEN NaN
              ELSE Rat(a[1] * b[2], a[2] * b[1])

\* a < b; every comparison with NaN is False, as in Python
RLess(a, b) == /\ ~IsNaN(a)
               /\ ~IsNaN(b)
               /\ a[1] * b[2] < b[1] * a[2]

RLeq(a, b) == /\ ~IsNaN(a)
              /\ ~IsNaN(b)
              /\ a[1] * b[2] <= b[1] * a[2]

\* floor of a rational (the mathematical floor, used to state claims)
RFloor(a) == a[1] \div a[2]

\* Python int(float): truncation toward zero.  int(nan) raises ValueError,
\* which the callers test for with IsNaN before calling.
PyInt(a) == IF a[1] >= 0 THEN a[1] \div a[2] ELSE -((-a[1]) \div a[2])

(***************************************************************************)
(* Python dicts: sequences of <<key, value>> in insertion order            *)
(***************************************************************************)
EmptyDict == <<>>

DictKeys(d) == [i \in 1..Len(d) |-> d[i][1]]

KeySet(d) == {d[i][1] : i \in 1..Len(d)}

DictHas(d, k) == \E i \in 1..Len(d) : d[i][1] = k

DictGet(d, k) == d[CHOOSE i \in 1..Len(d) : d[i][1] = k][2]

\* d.get(k, default)
DictGetOr(d, k, default) == IF DictHas(d, k) THEN DictGet(d, k) ELSE default

\* d[k] = v: an existing key keeps its position, a new key goes last
DictSet(d, k, v) ==
    IF DictHas(d, k)
    THEN [i \in 1..Len(d) |-> IF d[i][1] = k THEN <<k, v>> ELSE d[i]]
    ELSE Append(d, <<k, v>>)

(***************************************************************************)
(* Inputs: the site mapping file and the pasted datasets                   *)
(***************************************************************************)
\* A parsed cell: a number, a missing value (NaN) or a non-numeric string.
Num(v) == [t |-> "num", v |-> v]

NaNCell == [t |-> "nan", v |-> 0]

StrCell == [t |-> "str", v |-> 0]

\* float(cell): the value, NaN for a missing cell; a non-numeric string
\* raises ValueError (CellRaises)
CellRaises(c) == c.t = "str"

PyFloat(c) == IF c.t = "num" THEN RInt(c.v) ELSE NaN

\* int(cell) raises ValueError for NaN and for a non-numeric string
IntRaises(c) == c.t # "num"

\* pd.isna(cell)
IsNa(c) == c.t = "nan"

\* One row of seq.csv: the Site, Shot and Seq fields as read by csv.DictReader
CsvRow(site, shot, seq) == [Site |-> site, Shot |-> shot, Seq |-> seq]

\* the seq.csv files the model starts from
SeqCsvFiles ==
    { <<CsvRow(Num(1), Num(1), Num(1)), CsvRow(Num(2), Num(1), Num(2)),
        CsvRow(Num(3), Num(2), Num(1))>>,
      <<CsvRow(Num(1), Num(3), Num(1)), CsvRow(Num(2), Num(4), Num(1)),
        CsvRow(Num(3), Num(5), Num(1))>>,
      <<CsvRow(Num(1), Num(1), Num(1)), CsvRow(Num(2), Num(1), Num(1)),
        CsvRow(Num(3), Num(1), Num(2))>> }

\* load_seq_data: the whole loop is inside one try, so the first row that
\* fails to parse ends the load and the rows before it stay in seq_data
RECURSIVE LoadSeqRows(_, _, _)
LoadSeqRows(rows, i, seq_data) ==
    IF i > Len(rows) THEN seq_data
    ELSE LET row == rows[i]
         IN  IF IntRaises(row.Site) \/ IntRaises(row.Shot) \/ IntRaises(row.Seq)
             THEN seq_data
             ELSE LoadSeqRows(rows, i + 1,
                      DictSet(seq_data, row.Site.v, <<row.Shot.v, row.Seq.v>>))

load_seq_data(rows) == LoadSeqRows(rows, 1, EmptyDict)

\* One measurement row of a pasted dataset
Row(g, t, s, x, y, pn, pv) ==
    [GLASS_ID |-> g, GLASS_END_TIME |-> t, SITE_NAME |-> s, X |-> x, Y |-> y,
     PARAM_NAME |-> pn, PARAM_VALUE |-> pv]

\* PARAM_NAME of a row that has none (pandas reads it as NaN)
NoName == "nan"

RowPool ==
    { Row("G1", "T1", Num(1), Num(1000), Num(2000), "POS_X1", Num(1)),
      Row("G1", "T1", Num(1), Num(1000), Num(2000), "POS_Y1", Num(2)),
      Row("G2", "T2", Num(1), Num(1000), Num(2000), "POS_X1", Num(3)),
      Row("G1", "T1", Num(2), Num(-1500), Num(-2500), "POS_X1", Num(-1)),
      Row("G2", "T2", Num(3), Num(3000), Num(-500), "OTHER", Num(7)),
      Row("G1", "T1", Num(9), Num(5000), Num(5000), "POS_X1", Num(2)),
      Row("G1", "T1", Num(1), NaNCell, Num(2000), "POS_X1", Num(1)),
      Row("G1", "T1", Num(2), StrCell, Num(-2500), "POS_Y1", Num(5)),
      Row("G1", "T1", NaNCell, Num(1000), Num(2000), "POS_X1", Num(1)),
      Row("G1", "T1", Num(2), Num(-1500), Num(-2500), NoName, NaNCell) }

required_columns == <<"GLASS_ID", "GLASS_END_TIME", "SITE_NAME", "X", "Y">>

AllColumns == {"GLASS_ID", "GLASS_END_TIME", "SITE_NAME", "X", "Y",
               "PARAM_NAME", "PARAM_VALUE"}

\* A DataFrame: its columns and its rows
DataFrame(cols, rows) == [columns |-> cols, rows |-> rows]

MaxRows == 2

RowSeqs == UNION {[1..n -> RowPool] : n \in 0..MaxRows}

(***************************************************************************)
(* Placement: scaling and the quadrant shift                               *)
(***************************************************************************)
Thousand == 1000

\* x / (self.design_scale * 1000)
Quotient(x, design_scale) == RDiv(x, RInt(design_scale * Thousand))

\* {shot: {seq: point}} with d[shot][seq] = pt
SetPoint(d, shot, seq, pt) ==
    DictSet(d, shot, DictSet(DictGetOr(d, shot, EmptyDict), seq, pt))

\* f"{glass_id}_{end_time}"
GlassKey(glass_id, end_time) == glass_id \o "_" \o end_time

(***************************************************************************)
(* mapping_visualizer.py: MappingVisualizer.process_data                   *)
(*                                                                         *)
(* `self` is the record of the window attributes the loops read:           *)
(* seq_data, design_scale, offset_scale, shot_separation.                  *)
(***************************************************************************)
\* int(x / (self.design_scale * 1000)) of the theory pass
V_TheoryScaled(x, design_scale) == PyInt(Quotient(x, design_scale))

\* the quadrant shift of the theory pass
V_TheoryShift(shot, sep) ==
    IF shot = 2 THEN <<sep, -sep>>
    ELSE IF shot = 3 THEN <<-sep, -sep>>
    ELSE IF shot = 4 THEN <<-sep, sep>>
    ELSE IF shot = 1 THEN <<sep, sep>>
    ELSE <<0, 0>>

\* One iteration of the first loop.  st = [polygons, site_theory_coords,
\* original_coords]; a ValueError ends the iteration and keeps what the
\* iteration had assigned before it.
V_TheoryRow(self, st, row) ==
    IF IntRaises(row.SITE_NAME) \/ CellRaises(row.X) \/ CellRaises(row.Y)
    THEN st
    ELSE LET site_name == row.SITE_NAME.v
             x == PyFloat(row.X)
             y == PyFloat(row.Y)
             st1 == [st EXCEPT
                       !.site_theory_coords = DictSet(@, site_name, <<x, y>>),
                       !.original_coords = DictSet(@, site_name, <<x, y>>)]
         IN  IF ~DictHas(self.seq_data, site_name) THEN st1
             ELSE IF IsNaN(Quotient(x, self.design_scale))
                     \/ IsNaN(Quotient(y, self.design_scale))
             THEN st1
             ELSE LET shot == DictGet(self.seq_data, site_name)[1]
                      seq == DictGet(self.seq_data, site_name)[2]
                      sh == V_TheoryShift(shot, self.shot_separation)
                      scaled_x == V_TheoryScaled(x, self.design_scale) + sh[1]
                      scaled_y == V_TheoryScaled(y, self.design_scale) + sh[2]
                  IN  [st1 EXCEPT !.polygons =
                          SetPoint(@, shot, seq, <<RInt(scaled_x), RInt(scaled_y)>>)]

RECURSIVE V_TheoryLoop(_, _, _, _)
V_TheoryLoop(self, rows, i, st) ==
    IF i > Len(rows) THEN st
    ELSE V_TheoryLoop(self, rows, i + 1, V_TheoryRow(self, st, rows[i]))

V_TheoryPass(self, rows) ==
    V_TheoryLoop(self, rows, 1,
        [polygons |-> EmptyDict, site_theory_coords |-> EmptyDict,
         original_coords |-> EmptyDict])

\* One iteration of the second loop: offset_data[key][site_name][param_name]
\* an offset pass that stores the value of any PARAM_NAME
V_OffsetRow_anyname(offset_data, row) ==
    IF row.PARAM_NAME = NoName \/ IsNa(row.PARAM_VALUE) THEN offset_data
    ELSE IF IntRaises(row.SITE_NAME) \/ CellRaises(row.PARAM_VALUE)
    THEN offset_data
    ELSE DictSet(offset_data, GlassKey(row.GLASS_ID, row.GLASS_END_TIME),
             DictSet(DictGetOr(offset_data, GlassKey(row.GLASS_ID, row.GLASS_END_TIME),
                               EmptyDict),
                     row.SITE_NAME.v,
                     DictSet(DictGetOr(DictGetOr(offset_data,
                                           GlassKey(row.GLASS_ID, row.GLASS_END_TIME),
                                           EmptyDict),
                                       row.SITE_NAME.v, EmptyDict),
                             row.PARAM_NAME, PyFloat(row.PARAM_VALUE))))

V_OffsetRow(offset_data, row) ==
    IF row.PARAM_NAME = NoName \/ IsNa(row.PARAM_VALUE) THEN offset_data
    ELSE IF IntRaises(row.SITE_NAME) \/ CellRaises(row.PARAM_VALUE)
    THEN offset_data
    ELSE IF row.PARAM_NAME \notin {"POS_X1", "POS_Y1"} THEN offset_data
    ELSE LET key == GlassKey(row.GLASS_ID, row.GLASS_END_TIME)
             site_name == row.SITE_NAME.v
             unit == DictGetOr(offset_data, key, EmptyDict)
             params == DictGetOr(unit, site_name, EmptyDict)
         IN  DictSet(offset_data, key,
                 DictSet(unit, site_name,
                     DictSet(params, row.PARAM_NAME, PyFloat(row.PARAM_VALUE))))

RECURSIVE V_OffsetLoop(_, _, _)
V_OffsetLoop(rows, i, offset_data) ==
    IF i > Len(rows) THEN offset_data
    ELSE V_OffsetLoop(rows, i + 1, V_OffsetRow(offset_data, rows[i]))

V_OffsetPass(rows) == V_OffsetLoop(rows, 1, EmptyDict)

\* int(x / (self.design_scale * 1000)) of the actual pass
V_ActualScaled(x, design_scale) == PyInt(Quotient(x, design_scale))

\* the quadrant shift of the actual pass
\* an actual pass that takes shot 4 for shot 2 (told apart by C3_QuadrantShift)
V_ActualShift_swapped(shot, sep) ==
    IF shot = 4 THEN <<sep, -sep>>
    ELSE IF shot = 3 THEN <<-sep, -sep>>
    ELSE IF shot = 2 THEN <<-sep, sep>>
    ELSE IF shot = 1 THEN <<sep, sep>>
    ELSE <<0, 0>>

V_ActualShift(shot, sep) ==
    IF shot = 2 THEN <<sep, -sep>>
    ELSE IF shot = 3 THEN <<-sep, -sep>>
    ELSE IF shot = 4 THEN <<-sep, sep>>
    ELSE IF shot = 1 THEN <<sep, sep>>
    ELSE <<0, 0>>

\* params.get('POS_X1', 0) / self.offset_scale
\* an offset multiplied by the scale instead (told apart by C4_ActualIsTheoryPlusOffset)
V_ScaledOffset_times(params, name, offset_scale) ==
    RMul(DictGetOr(params, name, RInt(0)), RInt(offset_scale))

V_ScaledOffset(params, name, offset_scale) ==
    RDiv(DictGetOr(params, name, RInt(0)), RInt(offset_scale))

\* One iteration of the inner loop of the third step.  st = [actual_polygons,
\* all_offsets, exc]; th is the result of the first loop.  int(nan) raises
\* ValueError outside any try.
V_ActualPlaced(self, th, st, glass_key, site_name, params) ==
         LET shot == DictGet(self.seq_data, site_name)[1]
             seq == DictGet(self.seq_data, site_name)[2]
             offset_x == V_ScaledOffset(params, "POS_X1", self.offset_scale)
             offset_y == V_ScaledOffset(params, "POS_Y1", self.offset_scale)
             st1 == [st EXCEPT !.all_offsets =
                        DictSet(@, site_name,
                            Append(DictGetOr(@, site_name, <<>>),
                                   <<offset_x, offset_y>>))]
             x == DictGet(th.site_theory_coords, site_name)[1]
             y == DictGet(th.site_theory_coords, site_name)[2]
         IN  IF IsNaN(Quotient(x, self.design_scale))
                \/ IsNaN(Quotient(y, self.design_scale))
             THEN [st1 EXCEPT !.exc = "ValueError"]
             ELSE LET sh == V_ActualShift(shot, self.shot_separation)
                      scaled_x == V_ActualScaled(x, self.design_scale) + sh[1]
                      scaled_y == V_ActualScaled(y, self.design_scale) + sh[2]
                      actual_x == RAdd(RInt(scaled_x), offset_x)
                      actual_y == RAdd(RInt(scaled_y), offset_y)
                  IN  [st1 EXCEPT !.actual_polygons =
                          DictSet(@, glass_key,
                              SetPoint(DictGet(@, glass_key), shot, seq,
                                       <<actual_x, actual_y>>))]

\* an actual pass that looks an unregistered site up: KeyError, not caught
V_ActualSite_unchecked(self, th, st, glass_key, site_name, params) ==
    IF ~DictHas(self.seq_data, site_name) THEN [st EXCEPT !.exc = "KeyError"]
    ELSE IF ~DictHas(th.site_theory_coords, site_name) THEN st
    ELSE V_ActualPlaced(self, th, st, glass_key, site_name, params)

\* one site of one unit: skipped when the registry or the theory pass does
\* not have it
V_ActualSite(self, th, st, glass_key, site_name, params) ==
    IF ~DictHas(self.seq_data, site_name) THEN st
    ELSE IF ~DictHas(th.site_theory_coords, site_name) THEN st
    ELSE V_ActualPlaced(self, th, st, glass_key, site_name, params)

RECURSIVE V_ActualSites(_, _, _, _, _, _)
V_ActualSites(self, th, st, glass_key, offsets, j) ==
    IF j > Len(offsets) \/ st.exc # "none" THEN st
    ELSE V_ActualSites(self, th,
             V_ActualSite(self, th, st, glass_key, offsets[j][1], offsets[j][2]),
             glass_key, offsets, j + 1)

RECURSIVE V_ActualUnits(_, _, _, _, _)
V_ActualUnits(self, th, st, offset_data, i) ==
    IF i > Len(offset_data) \/ st.exc # "none" THEN st
    ELSE LET glass_key == offset_data[i][1]
             st0 == [st EXCEPT !.actual_polygons = DictSet(@, glass_key, EmptyDict)]
         IN  V_ActualUnits(self, th,
                 V_ActualSites(self, th, st0, glass_key, offset_data[i][2], 1),
                 offset_data, i + 1)

V_ActualPass(self, th, offset_data) ==
    V_ActualUnits(self, th,
        [actual_polygons |-> EmptyDict, all_offsets |-> EmptyDict, exc |-> "none"],
        offset_data, 1)

\* int(x / (self.design_scale * 1000)) of the mean pass
\* a mean pass that rounds down instead (told apart by C2_TruncPlacement)
V_MeanScaled_floor(x, design_scale) == RFloor(Quotient(x, design_scale))

V_MeanScaled(x, design_scale) == PyInt(Quotient(x, design_scale))

\* the quadrant shift of the mean pass
V_MeanShift(shot, sep) ==
    IF shot = 2 THEN <<sep, -sep>>
    ELSE IF shot = 3 THEN <<-sep, -sep>>
    ELSE IF shot = 4 THEN <<-sep, sep>>
    ELSE IF shot = 1 THEN <<sep, sep>>
    ELSE <<0, 0>>

\* sum(o[axis] for o in offset_list)
RECURSIVE SumAxis(_, _, _)
SumAxis(offset_list, axis, i) ==
    IF i > Len(offset_list) THEN RInt(0)
    ELSE RAdd(offset_list[i][axis], SumAxis(offset_list, axis, i + 1))

\* sum(...) / len(offset_list), or 0 for an empty list
\* a sum that is not divided (told apart by C5_MeanOverUnits)
V_AvgOffset_sum(offset_list, axis) == SumAxis(offset_list, axis, 1)

V_AvgOffset(offset_list, axis) ==
    IF Len(offset_list) > 0
    THEN RDiv(SumAxis(offset_list, axis, 1), RInt(Len(offset_list)))
    ELSE RInt(0)

\* One iteration of the loop of the fourth step.  st = [mean_polygon, exc]
V_MeanSite(self, th, st, site_name, offset_list) ==
    IF ~DictHas(self.seq_data, site_name) THEN st
    ELSE IF ~DictHas(th.site_theory_coords, site_name) THEN st
    ELSE LET shot == DictGet(self.seq_data, site_name)[1]
             seq == DictGet(self.seq_data, site_name)[2]
             avg_offset_x == V_AvgOffset(offset_list, 1)
             avg_offset_y == V_AvgOffset(offset_list, 2)
             x == DictGet(th.site_theory_coords, site_name)[1]
             y == DictGet(th.site_theory_coords, site_name)[2]
         IN  IF IsNaN(Quotient(x, self.design_scale))
                \/ IsNaN(Quotient(y, self.design_scale))
             THEN [st EXCEPT !.exc = "ValueError"]
             ELSE LET sh == V_MeanShift(shot, self.shot_separation)
                      scaled_x == V_MeanScaled(x, self.design_scale) + sh[1]
                      scaled_y == V_MeanScaled(y, self.design_scale) + sh[2]
                      mean_x == RAdd(RInt(scaled_x), avg_offset_x)
                      mean_y == RAdd(RInt(scaled_y), avg_offset_y)
                  IN  [st EXCEPT !.mean_polygon =
                          SetPoint(@, shot, seq, <<mean_x, mean_y>>)]

RECURSIVE V_MeanLoop(_, _, _, _, _)
V_MeanLoop(self, th, st, all_offsets, i) ==
    IF i > Len(all_offsets) \/ st.exc # "none" THEN st
    ELSE V_MeanLoop(self, th,
             V_MeanSite(self, th, st, all_offsets[i][1], all_offsets[i][2]),
             all_offsets, i + 1)

V_MeanPass(self, th, all_offsets) ==
    V_MeanLoop(self, th, [mean_polygon |-> EmptyDict, exc |-> "none"],
               all_offsets, 1)

\* [col for col in required_columns if col not in df.columns]
\* a list that stops at the first missing column (told apart by
\* C6_MissingColumnsAbort)
V_missing_columns_first(df) ==
    SubSeq(SelectSeq(required_columns, LAMBDA col : col \notin df.columns), 1, 1)

V_missing_columns(df) ==
    SelectSeq(required_columns, LAMBDA col : col \notin df.columns)

\* The body of process_data up to the canvas calls, as the values it leaves
\* in the window: `result` is "missing" or "missing_param" for the two early
\* returns, "raised" when an exception left the function part-way, "built"
\* when the four steps ran to the end.
V_Built(th, offset_data, ac, mn) ==
    [result |-> IF mn.exc = "none" THEN "built" ELSE "raised",
     missing |-> <<>>,
     polygons |-> th.polygons,
     actual_polygons |-> ac.actual_polygons,
     offset_data |-> offset_data,
     mean_polygon |-> mn.mean_polygon,
     original_coords |-> th.original_coords,
     offset_values |-> offset_data,
     site_theory_coords |-> th.site_theory_coords,
     all_offsets |-> ac.all_offsets]

\* the fourth step runs when the third has not raised
V_Step4(self, th, offset_data, ac) ==
    V_Built(th, offset_data, ac,
        IF ac.exc = "none" THEN V_MeanPass(self, th, ac.all_offsets)
        ELSE [mean_polygon |-> EmptyDict, exc |-> ac.exc])

V_Step3(self, th, offset_data) ==
    V_Step4(self, th, offset_data, V_ActualPass(self, th, offset_data))

V_process_data(self, df) ==
    IF Len(V_missing_columns(df)) > 0
    THEN [result |-> "missing", missing |-> V_missing_columns(df)]
    ELSE IF "PARAM_NAME" \notin df.columns \/ "PARAM_VALUE" \notin df.columns
    THEN [result |-> "missing_param", missing |-> <<>>]
    ELSE V_Step3(self, V_TheoryPass(self, df.rows), V_OffsetPass(df.rows))

(***************************************************************************)
(* mapping_visualizer.py: MatplotlibCanvas                                 *)
(***************************************************************************)
\* sorted(points.keys())
RECURSIVE SortedSet(_)
SortedSet(S) ==
    IF S = {} THEN <<>>
    ELSE LET m == CHOOSE a \in S : \A b \in S : a <= b
         IN  <<m>> \o SortedSet(S \ {m})

\* [points[seq] for seq in sorted(points.keys())]
SortedPoints(points) ==
    LET keys == SortedSet(KeySet(points))
    IN  [i \in 1..Len(keys) |-> DictGet(points, keys[i])]

\* the view limits of an axes after axes.clear()
DefaultLim == <<RInt(0), RInt(1)>>

\* the glass_key tag of theory points (None) and of mean points
NoneKey == "None"

MeanKey == "mean"

Meta(point, is_theory, shot, seq, glass_key) ==
    [x |-> point[1], y |-> point[2], is_theory |-> is_theory, shot |-> shot,
     seq |-> seq, glass_key |-> glass_key]

\* [f(seq, point) for seq, point in points.items()] as metadata entries
PointsMeta(points, is_theory, shot, glass_key) ==
    [i \in 1..Len(points) |->
        Meta(points[i][2], is_theory, shot, points[i][1], glass_key)]

\* The theory loop and the mean loop of redraw_plot have the same shape: a
\* shot with at least 2 points gets a line through the sorted points and the
\* first point again, and its points are added to point_metadata.
\* acc = [lines, meta]
V_TheoryClosed(sorted_points) == sorted_points \o <<sorted_points[1]>>

RECURSIVE V_DrawTheory(_, _, _)
V_DrawTheory(theory_polygons, i, acc) ==
    IF i > Len(theory_polygons) THEN acc
    ELSE LET shot == theory_polygons[i][1]
             points == theory_polygons[i][2]
             sorted_points == SortedPoints(points)
         IN  V_DrawTheory(theory_polygons, i + 1,
                 IF Len(sorted_points) >= 2
                 THEN [lines |-> Append(acc.lines, V_TheoryClosed(sorted_points)),
                       meta |-> acc.meta \o PointsMeta(points, TRUE, shot, NoneKey)]
                 ELSE acc)

V_MeanClosed(sorted_points) == sorted_points \o <<sorted_points[1]>>

RECURSIVE V_DrawMean(_, _, _)
V_DrawMean(mean_polygon, i, acc) ==
    IF i > Len(mean_polygon) THEN acc
    ELSE LET shot == mean_polygon[i][1]
             points == mean_polygon[i][2]
             sorted_points == SortedPoints(points)
         IN  V_DrawMean(mean_polygon, i + 1,
                 IF Len(sorted_points) >= 2
                 THEN [lines |-> Append(acc.lines, V_MeanClosed(sorted_points)),
                       meta |-> acc.meta \o PointsMeta(points, FALSE, shot, MeanKey)]
                 ELSE acc)

\* the metadata of every actual point, in the iteration order of the dicts
RECURSIVE V_ShotsMeta(_, _, _)
V_ShotsMeta(polygon_set, glass_key, j) ==
    IF j > Len(polygon_set) THEN <<>>
    ELSE PointsMeta(polygon_set[j][2], FALSE, polygon_set[j][1], glass_key)
         \o V_ShotsMeta(polygon_set, glass_key, j + 1)

RECURSIVE V_ActualMeta(_, _)
V_ActualMeta(actual_polygon_sets, i) ==
    IF i > Len(actual_polygon_sets) THEN <<>>
    ELSE V_ShotsMeta(actual_polygon_sets[i][2], actual_polygon_sets[i][1], 1)
         \o V_ActualMeta(actual_polygon_sets, i + 1)

\* every point of a {shot: {seq: point}} dict, in iteration order
RECURSIVE ShotPoints(_, _)
ShotPoints(polys, i) ==
    IF i > Len(polys) THEN <<>>
    ELSE [k \in 1..Len(polys[i][2]) |-> polys[i][2][k][2]] \o ShotPoints(polys, i + 1)

RECURSIVE UnitPoints(_, _)
UnitPoints(sets, i) ==
    IF i > Len(sets) THEN <<>>
    ELSE ShotPoints(sets[i][2], 1) \o UnitPoints(sets, i + 1)

RMin(a, b) == IF RLess(b, a) THEN b ELSE a

RMax(a, b) == IF RLess(a, b) THEN b ELSE a

RECURSIVE MinCoord(_, _, _)
MinCoord(pts, axis, i) ==
    IF i = Len(pts) THEN pts[i][axis]
    ELSE RMin(pts[i][axis], MinCoord(pts, axis, i + 1))

RECURSIVE MaxCoord(_, _, _)
MaxCoord(pts, axis, i) ==
    IF i = Len(pts) THEN pts[i][axis]
    ELSE RMax(pts[i][axis], MaxCoord(pts, axis, i + 1))

\* padding = 0.1
V_padding == Rat(1, 10)

\* `if x_range < 1e-10: x_range = 1`.  Every range of the model is a rational
\* with a denominator far below 10^10, so range < 1e-10 iff range <= 0.
V_MinRange(range) == IF range[1] <= 0 THEN RInt(1) ELSE range

\* auto_scale: the limits it sets, or the current ones when it returns early
V_PaddedLim(lo, hi, pad) == <<RSub(lo, pad), RAdd(hi, pad)>>

V_AxisLim(lo, hi) ==
    V_PaddedLim(lo, hi, RMul(V_padding, V_MinRange(RSub(hi, lo))))

V_ScaleTo(c, all_points) ==
    IF Len(all_points) = 0 THEN c
    ELSE [c EXCEPT
            !.xlim = V_AxisLim(MinCoord(all_points, 1, 1), MaxCoord(all_points, 1, 1)),
            !.ylim = V_AxisLim(MinCoord(all_points, 2, 1), MaxCoord(all_points, 2, 1))]

\* limits computed from the theory points only
V_auto_scale_theory(c) ==
    IF Len(c.theory_polygons) = 0 /\ Len(c.actual_polygon_sets) = 0 THEN c
    ELSE V_ScaleTo(c, ShotPoints(c.theory_polygons, 1))

V_auto_scale(c) ==
    IF Len(c.theory_polygons) = 0 /\ Len(c.actual_polygon_sets) = 0 THEN c
    ELSE V_ScaleTo(c, ShotPoints(c.theory_polygons, 1)
                      \o UnitPoints(c.actual_polygon_sets, 1))

\* an index built from the points in reverse order
V_build_spatial_index_reversed(c) ==
    IF Len(c.point_metadata) = 0 THEN c
    ELSE [c EXCEPT !.point_kdtree =
            [built |-> TRUE,
             coordinates |-> [i \in 1..Len(c.point_metadata) |->
                 <<c.point_metadata[Len(c.point_metadata) + 1 - i].x,
                   c.point_metadata[Len(c.point_metadata) + 1 - i].y>>]]]

\* build_spatial_index: scipy is imported at module level, so the ImportError
\* branch cannot be taken; with no points the old tree is kept
V_build_spatial_index(c) ==
    IF Len(c.point_metadata) = 0 THEN c
    ELSE [c EXCEPT !.point_kdtree =
            [built |-> TRUE,
             coordinates |-> [i \in 1..Len(c.point_metadata) |->
                 <<c.point_metadata[i].x, c.point_metadata[i].y>>]]]

\* axes.clear() and the resets at the head of redraw_plot: the artists leave
\* the axes (highlight_point keeps referring to its artist), the limits go
\* back to the default
V_clear(c) ==
    [c EXCEPT !.theory_lines = <<>>, !.mean_lines = <<>>, !.actual_points = <<>>,
              !.point_metadata = <<>>,
              !.xlim = DefaultLim, !.ylim = DefaultLim,
              !.highlight_on_axes = FALSE]

\* redraw_plot: [canvas, exc].  The canvas has no mean_polygon attribute
\* until update_polygons sets one, and reading it raises AttributeError
\* after the theory loop has run.
V_DrawnActual(c, am) ==
    [c EXCEPT !.point_metadata = @ \o am,
              !.actual_points =
                  IF Len(am) > 0
                  THEN <<[i \in 1..Len(am) |-> <<am[i].x, am[i].y>>]>>
                  ELSE <<>>]

V_DrawnMean(c, mn) ==
    V_DrawnActual([c EXCEPT !.mean_lines = mn.lines, !.point_metadata = mn.meta],
                  V_ActualMeta(c.actual_polygon_sets, 1))

V_DrawnTheory(c, th) ==
    [c EXCEPT !.theory_lines = th.lines, !.point_metadata = th.meta]

V_RedrawFrom(c1) ==
    IF ~c1.has_mean_polygon
    THEN [canvas |-> c1, exc |-> "AttributeError"]
    ELSE [canvas |-> V_build_spatial_index(V_auto_scale(
                         V_DrawnMean(c1, V_DrawMean(c1.mean_polygon, 1,
                             [lines |-> <<>>, meta |-> c1.point_metadata])))),
          exc |-> "none"]

V_redraw_plot(c) ==
    V_RedrawFrom(V_DrawnTheory(V_clear(c),
        V_DrawTheory(c.theory_polygons, 1, [lines |-> <<>>, meta |-> <<>>])))

\* update_polygons
V_update_polygons(c, theory_polygons, actual_polygon_sets, mean_polygon) ==
    V_redraw_plot([c EXCEPT !.theory_polygons = theory_polygons,
                            !.actual_polygon_sets = actual_polygon_sets,
                            !.mean_polygon = mean_polygon,
                            !.has_mean_polygon = TRUE])

\* set_params
V_set_params(c, w) ==
    [c EXCEPT !.design_scale = w.design_scale, !.offset_scale = w.offset_scale,
              !.shot_separation = w.shot_separation,
              !.spec_x = w.spec_x, !.spec_y = w.spec_y]

\* set_original_data
V_set_original_data(c, original_coords, offset_values) ==
    [c EXCEPT !.original_coords = original_coords,
              !.offset_values = offset_values]

(***************************************************************************)
(* mapping_matplotlib.py: MappingMatplotlibVisualizer.process_data         *)
(***************************************************************************)
\* the quotient rounded down
M_TheoryScaled_floor(x, design_scale) == RFloor(Quotient(x, design_scale))

\* int(x / (self.design_scale * 1000)) of the theory pass
M_TheoryScaled(x, design_scale) == PyInt(Quotient(x, design_scale))

\* the quadrant shift of the theory pass
M_TheoryShift(shot, sep) ==
    IF shot = 2 THEN <<sep, -sep>>
    ELSE IF shot = 3 THEN <<-sep, -sep>>
    ELSE IF shot = 4 THEN <<-sep, sep>>
    ELSE IF shot = 1 THEN <<sep, sep>>
    ELSE <<0, 0>>

\* One iteration of the first loop.  st = [polygons, site_theory_coords,
\* original_coords]; a ValueError ends the iteration and keeps what the
\* iteration had assigned before it.
M_TheoryRow(self, st, row) ==
    IF IntRaises(row.SITE_NAME) \/ CellRaises(row.X) \/ CellRaises(row.Y)
    THEN st
    ELSE LET site_name == row.SITE_NAME.v
             x == PyFloat(row.X)
             y == PyFloat(row.Y)
             st1 == [st EXCEPT
                       !.site_theory_coords = DictSet(@, site_name, <<x, y>>),
                       !.original_coords = DictSet(@, site_name, <<x, y>>)]
         IN  IF ~DictHas(self.seq_data, site_name) THEN st1
             ELSE IF IsNaN(Quotient(x, self.design_scale))
                     \/ IsNaN(Quotient(y, self.design_scale))
             THEN st1
             ELSE LET shot == DictGet(self.seq_data, site_name)[1]
                      seq == DictGet(self.seq_data, site_name)[2]
                      sh == M_TheoryShift(shot, self.shot_separation)
                      scaled_x == M_TheoryScaled(x, self.design_scale) + sh[1]
                      scaled_y == M_TheoryScaled(y, self.design_scale) + sh[2]
                  IN  [st1 EXCEPT !.polygons =
                          SetPoint(@, shot, seq, <<RInt(scaled_x), RInt(scaled_y)>>)]

RECURSIVE M_TheoryLoop(_, _, _, _)
M_TheoryLoop(self, rows, i, st) ==
    IF i > Len(rows) THEN st
    ELSE M_TheoryLoop(self, rows, i + 1, M_TheoryRow(self, st, rows[i]))

M_TheoryPass(self, rows) ==
    M_TheoryLoop(self, rows, 1,
        [polygons |-> EmptyDict, site_theory_coords |-> EmptyDict,
         original_coords |-> EmptyDict])

\* One iteration of the second loop: offset_data[key][site_name][param_name]
M_OffsetRow(offset_data, row) ==
    IF row.PARAM_NAME = NoName \/ IsNa(row.PARAM_VALUE) THEN offset_data
    ELSE IF IntRaises(row.SITE_NAME) \/ CellRaises(row.PARAM_VALUE)
    THEN offset_data
    ELSE IF row.PARAM_NAME \notin {"POS_X1", "POS_Y1"} THEN offset_data
    ELSE LET key == GlassKey(row.GLASS_ID, row.GLASS_END_TIME)
             site_name == row.SITE_NAME.v
             unit == DictGetOr(offset_data, key, EmptyDict)
             params == DictGetOr(unit, site_name, EmptyDict)
         IN  DictSet(offset_data, key,
                 DictSet(unit, site_name,
                     DictSet(params, row.PARAM_NAME, PyFloat(row.PARAM_VALUE))))

RECURSIVE M_OffsetLoop(_, _, _)
M_OffsetLoop(rows, i, offset_data) ==
    IF i > Len(rows) THEN offset_data
    ELSE M_OffsetLoop(rows, i + 1, M_OffsetRow(offset_data, rows[i]))

M_OffsetPass(rows) == M_OffsetLoop(rows, 1, EmptyDict)

\* int(x / (self.design_scale * 1000)) of the actual pass
M_ActualScaled(x, design_scale) == PyInt(Quotient(x, design_scale))

\* the quadrant shift of the actual pass
M_ActualShift(shot, sep) ==
    IF shot = 2 THEN <<sep, -sep>>
    ELSE IF shot = 3 THEN <<-sep, -sep>>
    ELSE IF shot = 4 THEN <<-sep, sep>>
    ELSE IF shot = 1 THEN <<sep, sep>>
    ELSE <<0, 0>>

\* params.get('POS_X1', 0) / self.offset_scale
M_ScaledOffset(params, name, offset_scale) ==
    RDiv(DictGetOr(params, name, RInt(0)), RInt(offset_scale))

\* One iteration of the inner loop of the third step.  st = [actual_polygons,
\* exc]; th is the result of the first loop.  int(nan) raises
\* ValueError outside any try.
M_ActualSite(self, th, st, glass_key, site_name, params) ==
    IF ~DictHas(self.seq_data, site_name) THEN st
    ELSE IF ~DictHas(th.site_theory_coords, site_name) THEN st
    ELSE LET shot == DictGet(self.seq_data, site_name)[1]
             seq == DictGet(self.seq_data, site_name)[2]
             offset_x == M_ScaledOffset(params, "POS_X1", self.offset_scale)
             offset_y == M_ScaledOffset(params, "POS_Y1", self.offset_scale)
             st1 == st
             x == DictGet(th.site_theory_coords, site_name)[1]
             y == DictGet(th.site_theory_coords, site_name)[2]
         IN  IF IsNaN(Quotient(x, self.design_scale))
                \/ IsNaN(Quotient(y, self.design_scale))
             THEN [st1 EXCEPT !.exc = "ValueError"]
             ELSE LET sh == M_ActualShift(shot, self.shot_separation)
                      scaled_x == M_ActualScaled(x, self.design_scale) + sh[1]
                      scaled_y == M_ActualScaled(y, self.design_scale) + sh[2]
                      actual_x == RAdd(RInt(scaled_x), offset_x)
                      actual_y == RAdd(RInt(scaled_y), offset_y)
                  IN  [st1 EXCEPT !.actual_polygons =
                          DictSet(@, glass_key,
                              SetPoint(DictGet(@, glass_key), shot, seq,
                                       <<actual_x, actual_y>>))]

RECURSIVE M_ActualSites(_, _, _, _, _, _)
M_ActualSites(self, th, st, glass_key, offsets, j) ==
    IF j > Len(offsets) \/ st.exc # "none" THEN st
    ELSE M_ActualSites(self, th,
             M_ActualSite(self, th, st, glass_key, offsets[j][1], offsets[j][2]),
             glass_key, offsets, j + 1)

RECURSIVE M_ActualUnits(_, _, _, _, _)
M_ActualUnits(self, th, st, offset_data, i) ==
    IF i > Len(offset_data) \/ st.exc # "none" THEN st
    ELSE LET glass_key == offset_data[i][1]
             st0 == [st EXCEPT !.actual_polygons = DictSet(@, glass_key, EmptyDict)]
         IN  M_ActualUnits(self, th,
                 M_ActualSites(self, th, st0, glass_key, offset_data[i][2], 1),
                 offset_data, i + 1)

M_ActualPass(self, th, offset_data) ==
    M_ActualUnits(self, th,
        [actual_polygons |-> EmptyDict, exc |-> "none"],
        offset_data, 1)

\* [col for col in required_columns if col not in df.columns]
M_missing_columns(df) ==
    SelectSeq(required_columns, LAMBDA col : col \notin df.columns)

\* The body of process_data up to the canvas calls (see V_process_data)
M_Built(th, offset_data, ac) ==
    [result |-> IF ac.exc = "none" THEN "built" ELSE "raised",
     missing |-> <<>>,
     polygons |-> th.polygons,
     actual_polygons |-> ac.actual_polygons,
     offset_data |-> offset_data,
     original_coords |-> th.original_coords,
     offset_values |-> offset_data,
     site_theory_coords |-> th.site_theory_coords]

M_Step3(self, th, offset_data) ==
    M_Built(th, offset_data, M_ActualPass(self, th, offset_data))

M_process_data(self, df) ==
    IF Len(M_missing_columns(df)) > 0
    THEN [result |-> "missing", missing |-> M_missing_columns(df)]
    ELSE IF "PARAM_NAME" \notin df.columns \/ "PARAM_VALUE" \notin df.columns
    THEN [result |-> "missing_param", missing |-> <<>>]
    ELSE M_Step3(self, M_TheoryPass(self, df.rows), M_OffsetPass(df.rows))

(***************************************************************************)
(* mapping_matplotlib.py: MatplotlibCanvas                                 *)
(***************************************************************************)
\* the list update_polygons makes of one {seq: point} dict: the points by
\* ascending seq and, when there is any point, the first point again
M_PointsList(points) ==
    LET points_list == SortedPoints(points)
    IN  IF Len(points_list) > 0 THEN points_list \o <<points_list[1]>>
        ELSE <<>>

\* {shot: points_list} for the shots that have a list
RECURSIVE M_ConvertShots(_, _)
M_ConvertShots(polys, i) ==
    IF i > Len(polys) THEN EmptyDict
    ELSE LET points_list == M_PointsList(polys[i][2])
             rest == M_ConvertShots(polys, i + 1)
         IN  IF Len(points_list) > 0 THEN <<<<polys[i][1], points_list>>>> \o rest
             ELSE rest

RECURSIVE M_ConvertUnits(_, _)
M_ConvertUnits(sets, i) ==
    IF i > Len(sets) THEN EmptyDict
    ELSE <<<<sets[i][1], M_ConvertShots(sets[i][2], 1)>>>>
         \o M_ConvertUnits(sets, i + 1)

\* every point of the lists of a {shot: points_list} dict
RECURSIVE M_ListPoints(_, _)
M_ListPoints(polys, i) ==
    IF i > Len(polys) THEN <<>>
    ELSE polys[i][2] \o M_ListPoints(polys, i + 1)

RECURSIVE M_UnitListPoints(_, _)
M_UnitListPoints(sets, i) ==
    IF i > Len(sets) THEN <<>>
    ELSE M_ListPoints(sets[i][2], 1) \o M_UnitListPoints(sets, i + 1)

\* padding = 0.1
M_padding == Rat(1, 10)

\* plot_data: the axes are cleared and, when a polygon was drawn, the limits
\* are set 10% of the extent outside the extreme points
M_PaddedLim(lo, hi, pad) == <<RSub(lo, pad), RAdd(hi, pad)>>

M_AxisLim(lo, hi) == M_PaddedLim(lo, hi, RMul(M_padding, RSub(hi, lo)))

M_LimitsTo(c0, pts) ==
    IF Len(pts) = 0 THEN c0
    ELSE [c0 EXCEPT
            !.xlim = M_AxisLim(MinCoord(pts, 1, 1), MaxCoord(pts, 1, 1)),
            !.ylim = M_AxisLim(MinCoord(pts, 2, 1), MaxCoord(pts, 2, 1))]

M_plot_data(c) ==
    M_LimitsTo([c EXCEPT !.xlim = DefaultLim, !.ylim = DefaultLim,
                         !.annotation_visible = FALSE],
               M_ListPoints(c.theory_polygons, 1)
               \o M_UnitListPoints(c.actual_polygons, 1))

\* update_polygons
M_update_polygons(c, theory_polygons, actual_polygons) ==
    M_plot_data([c EXCEPT
        !.theory_polygons = M_ConvertShots(theory_polygons, 1),
        !.actual_polygons = M_ConvertUnits(actual_polygons, 1)])

\* set_params
M_set_params(c, w) ==
    [c EXCEPT !.design_scale = w.design_scale, !.offset_scale = w.offset_scale,
              !.shot_separation = w.shot_separation]

\* set_seq_data and set_original_data
M_set_data(c, seq_data, original_coords, offset_values) ==
    [c EXCEPT !.seq_data = seq_data, !.original_coords = original_coords,
              !.offset_values = offset_values]

(***************************************************************************)
(* State                                                                   *)
(***************************************************************************)
VARIABLES
    program,    \* which of the two programs runs
    window,     \* the attributes of the main window
    canvas,     \* the attributes of its MatplotlibCanvas
    event,      \* the last handler that ran, how it ended and, for the
                \* handlers of the mouse, the event it received
    view_steps  \* zooms, scrolls and pans since redraw_plot last set the view

vars == <<program, window, canvas, event, view_steps>>

Visualizer == "mapping_visualizer"

Matplotlib == "mapping_matplotlib"

\* statusBar.showMessage(...)
Status(msg, columns, counts) == [msg |-> msg, columns |-> columns, counts |-> counts]

Ready == Status("ready", <<>>, <<0, 0>>)

\* the values the spin boxes are set to in the model
DesignScales == {1, 60}

OffsetScales == {1, 2}

ShotSeparations == {0, 4}

SpecValues == {Rat(5, 2), RInt(1)}

\* MatplotlibCanvas.__init__ of mapping_visualizer.py
V_CanvasInit(seq_data) ==
    [theory_polygons |-> EmptyDict, actual_polygon_sets |-> EmptyDict,
     mean_polygon |-> EmptyDict, has_mean_polygon |-> FALSE,
     seq_data |-> seq_data, show_grid |-> TRUE,
     design_scale |-> 10, offset_scale |-> 1, shot_separation |-> 3,
     spec_x |-> Rat(5, 2), spec_y |-> Rat(5, 2),
     original_coords |-> EmptyDict, offset_values |-> EmptyDict,
     theory_lines |-> <<>>, mean_lines |-> <<>>, actual_points |-> <<>>,
     has_highlight |-> FALSE, highlight_on_axes |-> FALSE,
     highlight_xy |-> <<RInt(0), RInt(0)>>, tooltip |-> [kind |-> "hidden"],
     point_metadata |-> <<>>,
     point_kdtree |-> [built |-> FALSE, coordinates |-> <<>>],
     pressed |-> FALSE, press_xdata |-> RInt(0), press_ydata |-> RInt(0),
     xlim |-> DefaultLim, ylim |-> DefaultLim]

\* MappingVisualizer.__init__
V_WindowInit(seq_data) ==
    [design_scale |-> 60, offset_scale |-> 1, shot_separation |-> 4,
     spec_x |-> Rat(5, 2), spec_y |-> Rat(5, 2),
     seq_data |-> seq_data,
     polygons |-> EmptyDict, actual_polygons |-> EmptyDict,
     offset_data |-> EmptyDict, mean_polygon |-> EmptyDict,
     has_last_df |-> FALSE, last_df |-> DataFrame({}, <<>>),
     statusBar |-> Ready, status_label |-> "waiting"]

V_Init ==
    /\ program = Visualizer
    /\ \E csv \in SeqCsvFiles :
          /\ window = V_WindowInit(load_seq_data(csv))
          /\ canvas = V_CanvasInit(load_seq_data(csv))
    /\ event = [handler |-> "__init__", result |-> "returned"]
    /\ view_steps = 0

(***************************************************************************)
(* mapping_visualizer.py: the handlers of the window                       *)
(***************************************************************************)
\* process_data(df) on window w and canvas c: [window, canvas, result]
V_Drawn(w2, rd) ==
    [window |-> w2, canvas |-> rd.canvas,
     result |-> IF rd.exc = "none" THEN "returned" ELSE "raised"]

\* the tail of process_data: status texts, then the three canvas calls
V_ShowBuilt(w2, c, r) ==
    V_Drawn(w2, V_update_polygons(
                    V_set_original_data(V_set_params(c, w2),
                                        r.original_coords, r.offset_values),
                    w2.polygons, w2.actual_polygons, w2.mean_polygon))

V_StoreBuilt(w1, c, r) ==
    IF r.result = "raised"
    THEN [window |-> w1, canvas |-> c, result |-> "raised"]
    ELSE V_ShowBuilt([w1 EXCEPT
                        !.statusBar = Status("loaded", <<>>,
                            <<Len(r.polygons), Len(r.actual_polygons)>>),
                        !.status_label = "loaded"],
                     c, r)

V_Processed(w, c, r) ==
    IF r.result = "missing"
    THEN [window |-> [w EXCEPT !.statusBar =
                          Status("missing_columns", r.missing, <<0, 0>>)],
          canvas |-> c, result |-> "returned"]
    ELSE IF r.result = "missing_param"
    THEN [window |-> [w EXCEPT !.statusBar =
                          Status("missing_param_columns", <<>>, <<0, 0>>)],
          canvas |-> c, result |-> "returned"]
    ELSE V_StoreBuilt([w EXCEPT !.polygons = r.polygons,
                                !.actual_polygons = r.actual_polygons,
                                !.offset_data = r.offset_data,
                                !.mean_polygon = r.mean_polygon],
                      c, r)

V_RunProcessData(w, c, df) == V_Processed(w, c, V_process_data(w, df))

\* process_data reached update_polygons, whose redraw_plot sets the view anew
V_Redrew(r) == r.result # "raised" /\ r.window.statusBar.msg = "loaded"

\* on_clipboard_changed with a text that pandas parses into df: an exception
\* of process_data is caught and shown in the status bar
V_on_clipboard_changed(df) ==
    /\ program = Visualizer
    /\ \E r \in {V_RunProcessData(
                    [window EXCEPT !.has_last_df = TRUE, !.last_df = df],
                    canvas, df)} :
          /\ window' = IF r.result = "raised"
                       THEN [r.window EXCEPT !.statusBar =
                                Status("error", <<>>, <<0, 0>>)]
                       ELSE r.window
          /\ canvas' = r.canvas
          /\ event' = [handler |-> "on_clipboard_changed",
                       result |-> IF r.result = "raised" THEN "caught"
                                  ELSE "returned"]
          /\ view_steps' = IF V_Redrew(r) THEN 0 ELSE view_steps
    /\ UNCHANGED program

\* on_param_changed after the spin box `spin` changed its value to `value`:
\* the handler reads all five spin boxes, four of which hold the values the
\* window already has
V_on_param_changed(spin, value) ==
    /\ program = Visualizer
    /\ window[spin] # value
    /\ \E w0 \in {[window EXCEPT ![spin] = value]} :
          IF w0.has_last_df
          THEN \E r \in {V_RunProcessData(w0, canvas, w0.last_df)} :
                  /\ window' = r.window
                  /\ canvas' = r.canvas
                  /\ event' = [handler |-> "on_param_changed",
                               result |-> r.result]
                  /\ view_steps' = IF V_Redrew(r) THEN 0 ELSE view_steps
          ELSE /\ window' = w0
               /\ canvas' = V_set_params(canvas, w0)
               /\ event' = [handler |-> "on_param_changed",
                            result |-> "returned"]
               /\ UNCHANGED view_steps
    /\ UNCHANGED program

\* the spin boxes that change the geometry, with the values they take
GeometrySpins ==
    ({"design_scale"} \X DesignScales) \cup ({"offset_scale"} \X OffsetScales)
    \cup ({"shot_separation"} \X ShotSeparations)

(***************************************************************************)
(* mapping_visualizer.py: the view and mouse handlers of the canvas        *)
(***************************************************************************)
\* the most zooms, scrolls and pans the model follows on one drawn view
MaxViewSteps == 2

\* the data coordinates the mouse events of the model carry
MousePositions == {<<RInt(4), RInt(4)>>, <<Rat(9, 2), RInt(4)>>}

Half(a) == RDiv(a, RInt(2))

\* zoom: the limits of one axis around their centre
V_ZoomLim(lim, factor) ==
    <<RSub(Half(RAdd(lim[1], lim[2])), Half(RDiv(RSub(lim[2], lim[1]), factor))),
      RAdd(Half(RAdd(lim[1], lim[2])), Half(RDiv(RSub(lim[2], lim[1]), factor)))>>

V_zoom(c, factor) ==
    [c EXCEPT !.xlim = V_ZoomLim(c.xlim, factor),
              !.ylim = V_ZoomLim(c.ylim, factor)]

\* on_zoom_in / on_zoom_out of the window: zoom(1.2) and zoom(1/1.2)
V_on_zoom(name, factor) ==
    /\ program = Visualizer
    /\ view_steps < MaxViewSteps
    /\ canvas' = V_zoom(canvas, factor)
    /\ event' = [handler |-> name, result |-> "returned"]
    /\ view_steps' = view_steps + 1
    /\ UNCHANGED <<program, window>>

V_on_zoom_in == V_on_zoom("zoom_in", Rat(6, 5))

V_on_zoom_out == V_on_zoom("zoom_out", RDiv(RInt(1), Rat(6, 5)))

\* on_reset_view of the window: reset_view, that is auto_scale
V_on_reset_view ==
    /\ program = Visualizer
    /\ canvas' = V_auto_scale(canvas)
    /\ event' = [handler |-> "reset_view", result |-> "returned"]
    /\ view_steps' = IF canvas' = canvas THEN view_steps ELSE 0
    /\ UNCHANGED <<program, window>>

\* on_grid_toggled: an exception of redraw_plot leaves the slot
V_on_grid_toggled(checked) ==
    /\ program = Visualizer
    /\ checked # canvas.show_grid
    /\ \E rd \in {V_redraw_plot([canvas EXCEPT !.show_grid = checked])} :
          /\ canvas' = rd.canvas
          /\ event' = [handler |-> "on_grid_toggled",
                       result |-> IF rd.exc = "none" THEN "returned" ELSE "raised"]
    /\ view_steps' = 0
    /\ UNCHANGED <<program, window>>

\* a scroll that zooms about the centre of the view, wherever the mouse is
V_ScrollLim_centre(lim, data, factor) == V_ZoomLim(lim, factor)

\* on_scroll: the limits of one axis, the mouse position staying where it is
V_ScrollLim(lim, data, factor) ==
    <<RSub(data, RMul(RDiv(RSub(data, lim[1]), RSub(lim[2], lim[1])),
                      RDiv(RSub(lim[2], lim[1]), factor))),
      RAdd(data, RMul(RSub(RInt(1), RDiv(RSub(data, lim[1]), RSub(lim[2], lim[1]))),
                      RDiv(RSub(lim[2], lim[1]), factor)))>>

V_on_scroll(inaxes, pos, button) ==
    /\ program = Visualizer
    /\ IF ~inaxes THEN UNCHANGED <<canvas, view_steps>>
       ELSE /\ view_steps < MaxViewSteps
            /\ \E factor \in {IF button = "up" THEN Rat(11, 10)
                              ELSE RDiv(RInt(1), Rat(11, 10))} :
                  canvas' = [canvas EXCEPT
                                !.xlim = V_ScrollLim(canvas.xlim, pos[1], factor),
                                !.ylim = V_ScrollLim(canvas.ylim, pos[2], factor)]
            /\ view_steps' = view_steps + 1
    /\ event' = [handler |-> "on_scroll", result |-> "returned", inaxes |-> inaxes,
                 xdata |-> pos[1], ydata |-> pos[2], button |-> button]
    /\ UNCHANGED <<program, window>>

\* the mouse event a handler received on canvas c: the button, whether the
\* cursor is in the axes, its data coordinates (xdata, ydata), which matplotlib
\* computes from the limits in force when the event is made, and its position
\* on the display as fractions (x, y) of the width and height of the axes
V_MouseEvent(name, c, inaxes, pos, button) ==
    [handler |-> name, result |-> "returned", inaxes |-> inaxes, button |-> button,
     xdata |-> pos[1], ydata |-> pos[2],
     x |-> RDiv(RSub(pos[1], c.xlim[1]), RSub(c.xlim[2], c.xlim[1])),
     y |-> RDiv(RSub(pos[2], c.ylim[1]), RSub(c.ylim[2], c.ylim[1]))]

\* a press that is stored whatever the button
V_on_mouse_press_any(inaxes, pos, button) ==
    /\ program = Visualizer
    /\ canvas' = IF inaxes
                 THEN [canvas EXCEPT !.pressed = TRUE, !.press_xdata = pos[1],
                                     !.press_ydata = pos[2]]
                 ELSE canvas
    /\ event' = V_MouseEvent("on_mouse_press", canvas, inaxes, pos, button)
    /\ UNCHANGED <<program, window, view_steps>>

\* on_mouse_press: press_event = event for the left and the middle button
V_on_mouse_press(inaxes, pos, button) ==
    /\ program = Visualizer
    /\ canvas' = IF inaxes /\ button \in {"left", "middle"}
                 THEN [canvas EXCEPT !.pressed = TRUE, !.press_xdata = pos[1],
                                     !.press_ydata = pos[2]]
                 ELSE canvas
    /\ event' = V_MouseEvent("on_mouse_press", canvas, inaxes, pos, button)
    /\ UNCHANGED <<program, window, view_steps>>

\* on_mouse_release: press_event = None
V_on_mouse_release ==
    /\ program = Visualizer
    /\ canvas' = [canvas EXCEPT !.pressed = FALSE, !.press_xdata = RInt(0),
                                !.press_ydata = RInt(0)]
    /\ event' = [handler |-> "on_mouse_release", result |-> "returned"]
    /\ UNCHANGED <<program, window, view_steps>>

\* (x - mx)**2 + (y - my)**2
Dist2(p, pos) ==
    RAdd(RMul(RSub(p[1], pos[1]), RSub(p[1], pos[1])),
         RMul(RSub(p[2], pos[2]), RSub(p[2], pos[2])))

\* a linear scan that keeps the last point it visits
V_Nearest_last(c, pos) ==
    IF c.point_kdtree.built
    THEN {i \in 1..Len(c.point_kdtree.coordinates) :
            \A j \in 1..Len(c.point_kdtree.coordinates) :
               RLeq(Dist2(c.point_kdtree.coordinates[i], pos),
                    Dist2(c.point_kdtree.coordinates[j], pos))}
    ELSE {Len(c.point_metadata)}

\* point_kdtree.query([mx, my], k=1): the index of a nearest point (any of
\* them on a tie), 1-based; without a tree the loop of the brute-force
\* search, which keeps the first of the nearest points
V_Nearest(c, pos) ==
    IF c.point_kdtree.built
    THEN {i \in 1..Len(c.point_kdtree.coordinates) :
            \A j \in 1..Len(c.point_kdtree.coordinates) :
               RLeq(Dist2(c.point_kdtree.coordinates[i], pos),
                    Dist2(c.point_kdtree.coordinates[j], pos))}
    ELSE {i \in 1..Len(c.point_metadata) :
            /\ \A j \in 1..Len(c.point_metadata) :
                  RLeq(Dist2(<<c.point_metadata[i].x, c.point_metadata[i].y>>, pos),
                       Dist2(<<c.point_metadata[j].x, c.point_metadata[j].y>>, pos))
            /\ \A j \in 1..(i - 1) :
                  RLess(Dist2(<<c.point_metadata[i].x, c.point_metadata[i].y>>, pos),
                        Dist2(<<c.point_metadata[j].x, c.point_metadata[j].y>>, pos))}

\* site_name is None when no site of seq_data has the (shot, seq)
NoSite == -1

\* the first site of seq_data with the (shot, seq)
RECURSIVE V_SiteAt(_, _, _, _)
V_SiteAt(seq_data, shot, seq, i) ==
    IF i > Len(seq_data) THEN NoSite
    ELSE IF seq_data[i][2] = <<shot, seq>> THEN seq_data[i][1]
    ELSE V_SiteAt(seq_data, shot, seq, i + 1)

\* the text of the tool tip, as the values it is formatted from
V_ActualInfo(c, m, site_name) ==
    [kind |-> "actual", shot |-> m.shot, site |-> site_name, glass |-> m.glass_key,
     detail |-> IF DictHas(c.offset_values, m.glass_key)
                   /\ DictHas(DictGet(c.offset_values, m.glass_key), site_name)
                THEN <<DictGetOr(DictGet(DictGet(c.offset_values, m.glass_key), site_name),
                                 "POS_X1", RInt(0)),
                       DictGetOr(DictGet(DictGet(c.offset_values, m.glass_key), site_name),
                                 "POS_Y1", RInt(0))>>
                ELSE <<>>]

V_HoverInfo(c, m, site_name) ==
    IF m.is_theory
    THEN [kind |-> "theory", shot |-> m.shot, site |-> site_name, glass |-> NoneKey,
          detail |-> IF DictHas(c.original_coords, site_name)
                     THEN DictGet(c.original_coords, site_name) ELSE <<>>]
    ELSE IF m.glass_key = MeanKey
    THEN [kind |-> "mean", shot |-> m.shot, site |-> site_name, glass |-> MeanKey,
          detail |-> <<>>]
    ELSE V_ActualInfo(c, m, site_name)

\* distance_threshold = 0.5, compared with the distance by <
V_distance_threshold == Rat(1, 2)

\* a hit test that takes a point at distance_threshold as well
V_Hovered_leq(c, dist2, index) ==
    IF ~RLeq(dist2, RMul(V_distance_threshold, V_distance_threshold))
    THEN [c EXCEPT !.tooltip = [kind |-> "hidden"]]
    ELSE IF index > Len(c.point_metadata) THEN c
    ELSE [c EXCEPT !.has_highlight = TRUE, !.highlight_on_axes = TRUE,
                   !.highlight_xy = <<c.point_metadata[index].x,
                                      c.point_metadata[index].y>>,
                   !.tooltip = V_HoverInfo(c, c.point_metadata[index],
                                   V_SiteAt(c.seq_data, c.point_metadata[index].shot,
                                            c.point_metadata[index].seq, 1))]

\* check_hover once the mouse is in the axes and point_metadata holds points;
\* index is the nearest point as found and dist2 the square of its distance.
\* An index beyond point_metadata raises IndexError, which the handler
\* catches.
V_Hovered(c, dist2, index) ==
    IF ~RLess(dist2, RMul(V_distance_threshold, V_distance_threshold))
    THEN [c EXCEPT !.tooltip = [kind |-> "hidden"]]
    ELSE IF index > Len(c.point_metadata) THEN c
    ELSE [c EXCEPT !.has_highlight = TRUE, !.highlight_on_axes = TRUE,
                   !.highlight_xy = <<c.point_metadata[index].x,
                                      c.point_metadata[index].y>>,
                   !.tooltip = V_HoverInfo(c, c.point_metadata[index],
                                   V_SiteAt(c.seq_data, c.point_metadata[index].shot,
                                            c.point_metadata[index].seq, 1))]

\* check_hover: highlight_point.remove() and highlight_point = None first
V_check_hover(c, pos, index) ==
    IF Len(c.point_metadata) = 0
    THEN [c EXCEPT !.has_highlight = FALSE, !.highlight_on_axes = FALSE]
    ELSE V_Hovered([c EXCEPT !.has_highlight = FALSE, !.highlight_on_axes = FALSE],
                   Dist2(IF c.point_kdtree.built
                         THEN c.point_kdtree.coordinates[index]
                         ELSE <<c.point_metadata[index].x, c.point_metadata[index].y>>,
                         pos),
                   index)

\* a pan that moves the upper end of xlim only
V_Panned_stretch(c, pos) ==
    [c EXCEPT
        !.xlim = <<c.xlim[1], RSub(c.xlim[2], RSub(pos[1], c.press_xdata))>>,
        !.ylim = <<RSub(c.ylim[1], RSub(pos[2], c.press_ydata)),
                   RSub(c.ylim[2], RSub(pos[2], c.press_ydata))>>,
        !.press_xdata = pos[1], !.press_ydata = pos[2]]

\* on_mouse_move: pan while a button is held, else check_hover
V_Panned(c, pos) ==
    [c EXCEPT
        !.xlim = <<RSub(c.xlim[1], RSub(pos[1], c.press_xdata)),
                   RSub(c.xlim[2], RSub(pos[1], c.press_xdata))>>,
        !.ylim = <<RSub(c.ylim[1], RSub(pos[2], c.press_ydata)),
                   RSub(c.ylim[2], RSub(pos[2], c.press_ydata))>>,
        !.press_xdata = pos[1], !.press_ydata = pos[2]]

V_on_mouse_move(inaxes, pos, button) ==
    /\ program = Visualizer
    /\ IF ~inaxes THEN UNCHANGED <<canvas, view_steps>>
       ELSE IF canvas.pressed /\ button \in {"left", "middle"}
       THEN /\ view_steps < MaxViewSteps
            /\ canvas' = V_Panned(canvas, pos)
            /\ view_steps' = view_steps + 1
       ELSE /\ \E index \in (IF Len(canvas.point_metadata) = 0 THEN {0}
                             ELSE V_Nearest(canvas, pos)) :
                  canvas' = V_check_hover(canvas, pos, index)
            /\ UNCHANGED view_steps
    /\ event' = V_MouseEvent("on_mouse_move", canvas, inaxes, pos, button)
    /\ UNCHANGED <<program, window>>

(***************************************************************************)
(* mapping_matplotlib.py: the window and its handlers                      *)
(***************************************************************************)
\* MatplotlibCanvas.__init__ of mapping_matplotlib.py
M_CanvasInit ==
    [theory_polygons |-> EmptyDict, actual_polygons |-> EmptyDict,
     original_coords |-> EmptyDict, offset_values |-> EmptyDict,
     seq_data |-> EmptyDict,
     design_scale |-> 10, offset_scale |-> 1, shot_separation |-> 3,
     annotation_visible |-> FALSE, annotation_text |-> [kind |-> "none"],
     xlim |-> DefaultLim, ylim |-> DefaultLim]

\* MappingMatplotlibVisualizer.__init__
M_WindowInit(seq_data) ==
    [design_scale |-> 60, offset_scale |-> 1, shot_separation |-> 4,
     seq_data |-> seq_data,
     polygons |-> EmptyDict, actual_polygons |-> EmptyDict,
     offset_data |-> EmptyDict,
     has_last_df |-> FALSE, last_df |-> DataFrame({}, <<>>),
     statusBar |-> Ready]

M_Init ==
    /\ program = Matplotlib
    /\ \E csv \in SeqCsvFiles : window = M_WindowInit(load_seq_data(csv))
    /\ canvas = M_CanvasInit
    /\ event = [handler |-> "__init__", result |-> "returned"]
    /\ view_steps = 0

\* process_data(df) on window w and canvas c: [window, canvas, result]
\* the tail of process_data: status text, then the four canvas calls
M_ShowBuilt(w2, c, r) ==
    [window |-> w2,
     canvas |-> M_update_polygons(
                    M_set_data(M_set_params(c, w2), w2.seq_data,
                               r.original_coords, r.offset_values),
                    w2.polygons, w2.actual_polygons),
     result |-> "returned"]

M_StoreBuilt(w1, c, r) ==
    IF r.result = "raised"
    THEN [window |-> w1, canvas |-> c, result |-> "raised"]
    ELSE M_ShowBuilt([w1 EXCEPT !.statusBar = Status("loaded", <<>>,
                            <<Len(r.polygons), Len(r.actual_polygons)>>)],
                     c, r)

M_Processed(w, c, r) ==
    IF r.result = "missing"
    THEN [window |-> [w EXCEPT !.statusBar =
                          Status("missing_columns", r.missing, <<0, 0>>)],
          canvas |-> c, result |-> "returned"]
    ELSE IF r.result = "missing_param"
    THEN [window |-> [w EXCEPT !.statusBar =
                          Status("missing_param_columns", <<>>, <<0, 0>>)],
          canvas |-> c, result |-> "returned"]
    ELSE M_StoreBuilt([w EXCEPT !.polygons = r.polygons,
                                !.actual_polygons = r.actual_polygons,
                                !.offset_data = r.offset_data],
                      c, r)

M_RunProcessData(w, c, df) == M_Processed(w, c, M_process_data(w, df))

\* on_clipboard_changed with a text that pandas parses into df
M_on_clipboard_changed(df) ==
    /\ program = Matplotlib
    /\ \E r \in {M_RunProcessData(
                    [window EXCEPT !.has_last_df = TRUE, !.last_df = df],
                    canvas, df)} :
          /\ window' = IF r.result = "raised"
                       THEN [r.window EXCEPT !.statusBar =
                                Status("error", <<>>, <<0, 0>>)]
                       ELSE r.window
          /\ canvas' = r.canvas
          /\ event' = [handler |-> "on_clipboard_changed",
                       result |-> IF r.result = "raised" THEN "caught"
                                  ELSE "returned"]
    /\ UNCHANGED <<program, view_steps>>

\* on_param_changed after the spin box `spin` changed its value to `value`
M_on_param_changed(spin, value) ==
    /\ program = Matplotlib
    /\ window[spin] # value
    /\ \E w0 \in {[window EXCEPT ![spin] = value]} :
          IF w0.has_last_df
          THEN \E r \in {M_RunProcessData(w0, canvas, w0.last_df)} :
                  /\ window' = r.window
                  /\ canvas' = r.canvas
                  /\ event' = [handler |-> "on_param_changed",
                               result |-> r.result]
          ELSE /\ window' = w0
               /\ canvas' = M_set_params(canvas, w0)
               /\ event' = [handler |-> "on_param_changed",
                            result |-> "returned"]
    /\ UNCHANGED <<program, view_steps>>

\* on_pick, theory line: the original coordinates of the first site of the
\* registry that is in the shot of the line and has original coordinates
RECURSIVE M_PickedOriginal(_, _, _)
M_PickedOriginal(c, shot, i) ==
    IF i > Len(c.seq_data) THEN <<>>
    ELSE IF c.seq_data[i][2][1] = shot /\ DictHas(c.original_coords, c.seq_data[i][1])
    THEN DictGet(c.original_coords, c.seq_data[i][1])
    ELSE M_PickedOriginal(c, shot, i + 1)

\* on_pick, actual line: the offsets of the first site of the registry that is
\* in the shot of the line and has offsets in the unit of the line
RECURSIVE M_PickedOffsets(_, _, _, _)
M_PickedOffsets(c, glass_key, shot, i) ==
    IF i > Len(c.seq_data) THEN <<>>
    ELSE IF /\ c.seq_data[i][2][1] = shot
            /\ DictHas(c.offset_values, glass_key)
            /\ DictHas(DictGet(c.offset_values, glass_key), c.seq_data[i][1])
    THEN <<DictGetOr(DictGet(DictGet(c.offset_values, glass_key), c.seq_data[i][1]),
                     "POS_X1", RInt(0)),
           DictGetOr(DictGet(DictGet(c.offset_values, glass_key), c.seq_data[i][1]),
                     "POS_Y1", RInt(0))>>
    ELSE M_PickedOffsets(c, glass_key, shot, i + 1)

\* the text of the annotation, as the values it is formatted from
M_PickInfo(c, is_theory, glass_key, shot) ==
    IF is_theory
    THEN [kind |-> "theory", shot |-> shot, glass |-> NoneKey,
          detail |-> M_PickedOriginal(c, shot, 1)]
    ELSE [kind |-> "actual", shot |-> shot, glass |-> glass_key,
          detail |-> M_PickedOffsets(c, glass_key, shot, 1)]

\* the points of the line plot_data drew for a shot (theory, glass_key None)
\* or for a shot of a unit; no points when there is no such line
M_LinePoints(c, is_theory, glass_key, shot) ==
    IF is_theory
    THEN DictGetOr(c.theory_polygons, shot, <<>>)
    ELSE DictGetOr(DictGetOr(c.actual_polygons, glass_key, EmptyDict), shot, <<>>)

\* on_pick for a click on point ind (from 0) of a line of the plot; event.ind[0]
\* is the first of the points of the line that are at the place clicked
M_on_pick(is_theory, glass_key, shot, ind) ==
    /\ program = Matplotlib
    /\ ind < Len(M_LinePoints(canvas, is_theory, glass_key, shot))
    /\ \A k \in 1..ind : M_LinePoints(canvas, is_theory, glass_key, shot)[k]
                            # M_LinePoints(canvas, is_theory, glass_key, shot)[ind + 1]
    /\ canvas' = [canvas EXCEPT
                     !.annotation_visible = TRUE,
                     !.annotation_text = M_PickInfo(canvas, is_theory, glass_key, shot)]
    /\ event' = [handler |-> "on_pick", result |-> "returned",
                 is_theory |-> is_theory, glass_key |-> glass_key,
                 shot |-> shot, ind |-> ind]
    /\ UNCHANGED <<program, window, view_steps>>

Init == V_Init \/ M_Init

(***************************************************************************)
(* The geometry specification: the first dataset pasted into a fresh       *)
(* window, after any changes of the three geometry parameters              *)
(***************************************************************************)
GeomParamChange ==
    /\ ~window.has_last_df
    /\ \E sv \in GeometrySpins :
          \/ V_on_param_changed(sv[1], sv[2])
          \/ M_on_param_changed(sv[1], sv[2])

GeomPaste ==
    /\ ~window.has_last_df
    /\ \E rows \in RowSeqs :
          \/ V_on_clipboard_changed(DataFrame(AllColumns, rows))
          \/ M_on_clipboard_changed(DataFrame(AllColumns, rows))

NextGeom == GeomParamChange \/ GeomPaste

SpecGeom == Init /\ [][NextGeom]_vars

(***************************************************************************)
(* The window in use: pastes, parameter changes, view and mouse handlers   *)
(***************************************************************************)
\* the datasets the model pastes: one that builds polygons, one without the
\* columns X and Y, and one whose second row has no X
Clipboard ==
    { DataFrame(AllColumns,
         <<Row("G1", "T1", Num(1), Num(1000), Num(2000), "POS_X1", Num(1)),
           Row("G1", "T1", Num(2), Num(-1500), Num(-2500), "POS_X1", Num(-1))>>),
      DataFrame(AllColumns \ {"X", "Y"},
         <<Row("G1", "T1", Num(1), Num(1000), Num(2000), "POS_X1", Num(1))>>),
      DataFrame(AllColumns,
         <<Row("G1", "T1", Num(1), Num(1000), Num(2000), "POS_X1", Num(1)),
           Row("G1", "T1", Num(1), NaNCell, Num(2000), "POS_X1", Num(1))>>) }

\* the spin boxes of the window, with the values they take
Spins ==
    GeometrySpins \cup ({"spec_x"} \X SpecValues) \cup ({"spec_y"} \X SpecValues)

\* a window constructed on the first of the seq.csv files
FirstCsv == DictGet(window.seq_data, 2) = <<1, 2>>

InitGui == Init /\ FirstCsv

Paste ==
    \E df \in Clipboard :
       \/ V_on_clipboard_changed(df)
       \/ M_on_clipboard_changed(df)

ParamChange ==
    \E sv \in Spins :
       \/ V_on_param_changed(sv[1], sv[2])
       \/ /\ sv[1] \notin {"spec_x", "spec_y"}
          /\ M_on_param_changed(sv[1], sv[2])

Next == Paste \/ ParamChange

Spec == InitGui /\ [][Next]_vars

\* the view specification: the visualizer, with a dataset that builds
\* polygons and one without rows
ViewClipboard ==
    { DataFrame(AllColumns,
         <<Row("G1", "T1", Num(1), Num(1000), Num(2000), "POS_X1", Num(1)),
           Row("G1", "T1", Num(2), Num(-1500), Num(-2500), "POS_X1", Num(-1))>>),
      DataFrame(AllColumns, <<>>) }

InitView == InitGui /\ program = Visualizer

ViewPaste == \E df \in ViewClipboard : V_on_clipboard_changed(df)

GridToggle == \E checked \in BOOLEAN : V_on_grid_toggled(checked)

Scroll ==
    \/ \E pos \in MousePositions, button \in {"up", "down"} :
          V_on_scroll(TRUE, pos, button)
    \/ V_on_scroll(FALSE, <<RInt(0), RInt(0)>>, "up")

MousePress ==
    \/ \E pos \in MousePositions, button \in {"left", "right"} :
          V_on_mouse_press(TRUE, pos, button)
    \/ V_on_mouse_press(FALSE, <<RInt(0), RInt(0)>>, "left")

\* the mouse moved with no button held
MouseMove ==
    \/ \E pos \in MousePositions : V_on_mouse_move(TRUE, pos, "none")
    \/ V_on_mouse_move(FALSE, <<RInt(0), RInt(0)>>, "none")

\* the mouse moved, with or without a button held
DragMove ==
    \/ \E pos \in MousePositions, button \in {"none", "left", "middle", "right"} :
          V_on_mouse_move(TRUE, pos, button)
    \/ V_on_mouse_move(FALSE, <<RInt(0), RInt(0)>>, "left")

NextView ==
    \/ ViewPaste
    \/ GridToggle
    \/ V_on_zoom_in
    \/ V_on_zoom_out
    \/ V_on_reset_view
    \/ Scroll
    \/ MouseMove

SpecView == InitView /\ [][NextView]_vars

(***************************************************************************)
(* The drag specification: datasets pasted into the window of              *)
(* mapping_visualizer, and the buttons of the mouse pressed and released   *)
(* and the mouse moved over the canvas                                     *)
(***************************************************************************)
NextDrag == ViewPaste \/ MousePress \/ V_on_mouse_release \/ DragMove

SpecDrag == InitView /\ [][NextDrag]_vars

(***************************************************************************)
(* Properties                                                              *)
(***************************************************************************)
HasPoint(polys, shot, seq) ==
    DictHas(polys, shot) /\ DictHas(DictGet(polys, shot), seq)

PointAt(polys, shot, seq) == DictGet(DictGet(polys, shot), seq)

PSub(p, q) == <<RSub(p[1], q[1]), RSub(p[2], q[2])>>

PAdd(p, q) == <<RAdd(p[1], q[1]), RAdd(p[2], q[2])>>

IntPoint(a, b) == <<RInt(a), RInt(b)>>

\* the last process_data ran its four steps and updated the canvas
CompletedBuild == window.has_last_df /\ window.statusBar.msg = "loaded"

\* no other site of the registry has the (shot, seq) of site s
Unshared(seq_data, s) ==
    /\ DictHas(seq_data, s)
    /\ \A t \in KeySet(seq_data) \ {s} : DictGet(seq_data, t) # DictGet(seq_data, s)

ShotOf(s) == DictGet(window.seq_data, s)[1]

SeqOf(s) == DictGet(window.seq_data, s)[2]

\* the raw (x, y) of site s as handed to the canvas
RawOf(s) == DictGet(canvas.original_coords, s)

\* registered sites with numeric raw coordinates whose (shot, seq) is theirs alone
PlacedSites ==
    {s \in KeySet(window.seq_data) :
        /\ Unshared(window.seq_data, s)
        /\ DictHas(canvas.original_coords, s)
        /\ ~IsNaN(RawOf(s)[1])
        /\ ~IsNaN(RawOf(s)[2])}

\* x / (design_scale * 1000) rounded toward zero ("trunc") or down ("floor")
ClaimQuot(mode, x, design_scale) ==
    LET n == x[1]
        q == x[2] * design_scale * 1000
    IN  IF mode = "floor" \/ n >= 0 THEN n \div q ELSE -((-n) \div q)

ClaimScaled(mode, s) ==
    IntPoint(ClaimQuot(mode, RawOf(s)[1], window.design_scale),
             ClaimQuot(mode, RawOf(s)[2], window.design_scale))

\* the quadrant table of the specification
ClaimShift(shot, sep) ==
    CASE shot = 1 -> IntPoint(sep, sep)
      [] shot = 2 -> IntPoint(sep, -sep)
      [] shot = 3 -> IntPoint(-sep, -sep)
      [] shot = 4 -> IntPoint(-sep, sep)
      [] OTHER -> IntPoint(0, 0)

\* the shifts of the three passes as the running program computes them
PassShift(pass, shot) ==
    LET sep == window.shot_separation
        sh == IF program = Visualizer
              THEN CASE pass = "theory" -> V_TheoryShift(shot, sep)
                     [] pass = "actual" -> V_ActualShift(shot, sep)
                     [] pass = "mean" -> V_MeanShift(shot, sep)
              ELSE CASE pass = "theory" -> M_TheoryShift(shot, sep)
                     [] pass = "actual" -> M_ActualShift(shot, sep)
    IN  IntPoint(sh[1], sh[2])

\* the scaled offset of site s in unit u, an axis without a record counting 0
OffsetOf(u, s) ==
    LET params == DictGet(DictGet(window.offset_data, u), s)
    IN  <<RDiv(DictGetOr(params, "POS_X1", RInt(0)), RInt(window.offset_scale)),
          RDiv(DictGetOr(params, "POS_Y1", RInt(0)), RInt(window.offset_scale))>>

HasOffset(u, s) ==
    DictHas(window.offset_data, u) /\ DictHas(DictGet(window.offset_data, u), s)

RECURSIVE PSum(_, _)
PSum(f, S) ==
    IF S = {} THEN IntPoint(0, 0)
    ELSE LET a == CHOOSE a \in S : TRUE
         IN  PAdd(f[a], PSum(f, S \ {a}))

PMean(f, S) ==
    <<RDiv(PSum(f, S)[1], RInt(Cardinality(S))),
      RDiv(PSum(f, S)[2], RInt(Cardinality(S)))>>

\* the units that have an offset record for site s
UnitsOf(s) == {u \in KeySet(window.offset_data) : HasOffset(u, s)}

MeanOffsetOf(s) == PMean([u \in UnitsOf(s) |-> OffsetOf(u, s)], UnitsOf(s))

HasMean == program = Visualizer

\* the placed coordinate before the shift, in the three passes, is `mode` of
\* the quotient
ScaledIs(mode) ==
    CompletedBuild =>
      \A s \in PlacedSites :
        /\ HasPoint(window.polygons, ShotOf(s), SeqOf(s))
        /\ PSub(PointAt(window.polygons, ShotOf(s), SeqOf(s)),
                PassShift("theory", ShotOf(s))) = ClaimScaled(mode, s)
        /\ \A u \in UnitsOf(s) :
              /\ HasPoint(DictGet(window.actual_polygons, u), ShotOf(s), SeqOf(s))
              /\ PSub(PSub(PointAt(DictGet(window.actual_polygons, u),
                                   ShotOf(s), SeqOf(s)),
                           OffsetOf(u, s)),
                      PassShift("actual", ShotOf(s))) = ClaimScaled(mode, s)
        /\ (HasMean /\ UnitsOf(s) # {}) =>
              /\ HasPoint(window.mean_polygon, ShotOf(s), SeqOf(s))
              /\ PSub(PSub(PointAt(window.mean_polygon, ShotOf(s), SeqOf(s)),
                           MeanOffsetOf(s)),
                      PassShift("mean", ShotOf(s))) = ClaimScaled(mode, s)

\* C2 as stated: for every raw coordinate, negative ones included, the placed
\* coordinate before the quadrant shift is the floor of x / (design_scale *
\* 1000), in the theory, actual and mean passes alike.
C2_FloorPlacement == ScaledIs("floor")

\* C2 amended: the placed coordinate before the quadrant shift is
\* x / (design_scale * 1000) truncated toward zero (the floor only when the
\* quotient is not negative), in the theory, actual and mean passes alike.
C2_TruncPlacement == ScaledIs("trunc")

\* a completed build of the visualizer with a placed site whose raw x is
\* negative and no multiple of the divisor, and which has an actual point and
\* a mean point
C2_Witness ==
    /\ CompletedBuild
    /\ HasMean
    /\ \E s \in PlacedSites :
          /\ UnitsOf(s) # {}
          /\ ClaimQuot("floor", RawOf(s)[1], window.design_scale)
               # ClaimQuot("trunc", RawOf(s)[1], window.design_scale)

\* C3: the quadrant shift of process_data is (+sep, +sep) for shot 1,
\* (+sep, -sep) for shot 2, (-sep, -sep) for shot 3, (-sep, +sep) for shot 4
\* and (0, 0) for any other shot, and the theory, actual and mean passes
\* apply the same shift to a site.
C3_QuadrantShift ==
    CompletedBuild =>
      \A s \in PlacedSites :
        LET want == PAdd(ClaimScaled("trunc", s),
                         ClaimShift(ShotOf(s), window.shot_separation))
        IN  /\ PointAt(window.polygons, ShotOf(s), SeqOf(s)) = want
            /\ \A u \in UnitsOf(s) :
                  PSub(PointAt(DictGet(window.actual_polygons, u),
                               ShotOf(s), SeqOf(s)),
                       OffsetOf(u, s)) = want
            /\ (HasMean /\ UnitsOf(s) # {}) =>
                  PSub(PointAt(window.mean_polygon, ShotOf(s), SeqOf(s)),
                       MeanOffsetOf(s)) = want

\* a completed build with a non-zero separation and measured sites (theory,
\* actual and mean point) in shot 3 and in shot 4
C3_Witness ==
    /\ CompletedBuild
    /\ HasMean
    /\ window.shot_separation > 0
    /\ \A shot \in {3, 4} :
          \E s \in PlacedSites : ShotOf(s) = shot /\ UnitsOf(s) # {}

ClosedLine(line) == Len(line) >= 3 /\ line[1] = line[Len(line)]

\* the shots of a {shot: {seq: point}} map that hold n points or more
ShotsWith(polys, n) == {shot \in KeySet(polys) : Len(DictGet(polys, shot)) >= n}

\* C1: every point sequence produced for drawing a polygon (theory and mean
\* per shot in redraw_plot of mapping_visualizer, theory per shot and actual
\* per unit and shot in update_polygons of mapping_matplotlib) is absent or
\* closed (first point = last point) with a length of at least 3; a shot with
\* exactly one point produces no polygon.
C1_ClosedPolygons ==
    IF program = Visualizer
    THEN /\ \A i \in 1..Len(canvas.theory_lines) : ClosedLine(canvas.theory_lines[i])
         /\ \A i \in 1..Len(canvas.mean_lines) : ClosedLine(canvas.mean_lines[i])
         /\ Len(canvas.theory_lines) = Cardinality(ShotsWith(canvas.theory_polygons, 2))
    ELSE /\ \A shot \in KeySet(canvas.theory_polygons) :
               ClosedLine(DictGet(canvas.theory_polygons, shot))
         /\ \A u \in KeySet(canvas.actual_polygons) :
               \A shot \in KeySet(DictGet(canvas.actual_polygons, u)) :
                  ClosedLine(DictGet(DictGet(canvas.actual_polygons, u), shot))
         /\ CompletedBuild =>
               KeySet(canvas.theory_polygons) = ShotsWith(window.polygons, 2)

\* C4 as stated: for every unit and every site of the unit with a recognised
\* offset and a theory placement, the actual point stored at the site's
\* (shot, seq) is the theory point at that (shot, seq) plus
\* (offset_x / offset_scale, offset_y / offset_scale), a missing axis being 0.
C4_ActualIsTheoryPlusOffsetAnySite ==
    \A u \in KeySet(window.actual_polygons) :
      \A s \in KeySet(window.seq_data) :
        ( /\ HasOffset(u, s)
          /\ HasPoint(window.polygons, ShotOf(s), SeqOf(s))
          /\ HasPoint(DictGet(window.actual_polygons, u), ShotOf(s), SeqOf(s)) )
        => PointAt(DictGet(window.actual_polygons, u), ShotOf(s), SeqOf(s))
             = PAdd(PointAt(window.polygons, ShotOf(s), SeqOf(s)), OffsetOf(u, s))

\* C4 amended: the same for the sites whose (shot, seq) no other site of the
\* registry has; after a process_data that ran to its end such a site of a
\* unit has an actual point.
C4_ActualIsTheoryPlusOffset ==
    \A u \in KeySet(window.offset_data) :
      \A s \in KeySet(window.seq_data) :
        ( /\ Unshared(window.seq_data, s)
          /\ HasOffset(u, s)
          /\ HasPoint(window.polygons, ShotOf(s), SeqOf(s)) )
        => /\ CompletedBuild =>
                /\ DictHas(window.actual_polygons, u)
                /\ HasPoint(DictGet(window.actual_polygons, u), ShotOf(s), SeqOf(s))
           /\ ( /\ DictHas(window.actual_polygons, u)
                /\ HasPoint(DictGet(window.actual_polygons, u), ShotOf(s), SeqOf(s)) )
              => PointAt(DictGet(window.actual_polygons, u), ShotOf(s), SeqOf(s))
                   = PAdd(PointAt(window.polygons, ShotOf(s), SeqOf(s)),
                          OffsetOf(u, s))

\* a completed build with offset_scale 2 and a unit whose site has an offset
\* on both axes and an actual point
C4_Witness ==
    /\ CompletedBuild
    /\ window.offset_scale = 2
    /\ \E u \in KeySet(window.actual_polygons) :
          \E s \in KeySet(window.seq_data) :
             /\ Unshared(window.seq_data, s)
             /\ HasOffset(u, s)
             /\ HasPoint(DictGet(window.actual_polygons, u), ShotOf(s), SeqOf(s))
             /\ OffsetOf(u, s)[1] # RInt(0)
             /\ OffsetOf(u, s)[2] # RInt(0)

\* the units whose actual polygon holds a point at the (shot, seq) of site s
UnitsAt(s) ==
    {u \in KeySet(window.actual_polygons) :
        HasPoint(DictGet(window.actual_polygons, u), ShotOf(s), SeqOf(s))}

\* actual point minus theory point at the (shot, seq) of site s, per unit
Deviation(s) ==
    [u \in UnitsAt(s) |->
        PSub(PointAt(DictGet(window.actual_polygons, u), ShotOf(s), SeqOf(s)),
             PointAt(window.polygons, ShotOf(s), SeqOf(s)))]

MeanIsMeanOfUnits(s) ==
    /\ HasPoint(window.polygons, ShotOf(s), SeqOf(s))
    /\ UnitsAt(s) # {}
    /\ PSub(PointAt(window.mean_polygon, ShotOf(s), SeqOf(s)),
            PointAt(window.polygons, ShotOf(s), SeqOf(s)))
         = PMean(Deviation(s), UnitsAt(s))

\* the sites that have offsets in some unit and numeric raw coordinates
MeasuredSites ==
    {s \in KeySet(window.seq_data) :
        /\ UnitsOf(s) # {}
        /\ DictHas(canvas.original_coords, s)}

\* C5 as stated: the mean point of a site minus its theory point is the
\* arithmetic mean, per axis, of (actual point - theory point) over exactly
\* the units whose actual polygon contains the site.
C5_MeanOverUnitsAnySite ==
    HasMean =>
      \A s \in KeySet(window.seq_data) :
        HasPoint(window.mean_polygon, ShotOf(s), SeqOf(s)) => MeanIsMeanOfUnits(s)

\* C5 amended: the same for the sites whose (shot, seq) no other site of the
\* registry has; after a process_data that ran to its end every such site
\* that was measured has a mean point.
C5_MeanOverUnits ==
    HasMean =>
      \A s \in KeySet(window.seq_data) :
        Unshared(window.seq_data, s) =>
          /\ (CompletedBuild /\ s \in MeasuredSites)
                => HasPoint(window.mean_polygon, ShotOf(s), SeqOf(s))
          /\ HasPoint(window.mean_polygon, ShotOf(s), SeqOf(s))
                => MeanIsMeanOfUnits(s)

\* a completed build in which a site of its own (shot, seq) was measured in
\* two units with different offsets
C5_Witness ==
    /\ CompletedBuild
    /\ HasMean
    /\ \E s \in KeySet(window.seq_data) :
          /\ Unshared(window.seq_data, s)
          /\ HasPoint(window.mean_polygon, ShotOf(s), SeqOf(s))
          /\ \E u, v \in UnitsAt(s) : Deviation(s)[u] # Deviation(s)[v]

\* a row whose X, Y or SITE_NAME is missing or not a number
BadRow(row) == row.X.t # "num" \/ row.Y.t # "num" \/ row.SITE_NAME.t # "num"

Without(rows, i) == SubSeq(rows, 1, i - 1) \o SubSeq(rows, i + 1, Len(rows))

\* what process_data builds from df with the parameters the window has
Rebuilt(df) ==
    IF program = Visualizer THEN V_process_data(window, df)
    ELSE M_process_data(window, df)

\* the points of a {shot: {seq: point}} map
Points2(polys) ==
    UNION {{<<shot, seq, PointAt(polys, shot, seq)>> :
               seq \in KeySet(DictGet(polys, shot))} : shot \in KeySet(polys)}

\* the points of a {unit: {shot: {seq: point}}} map
Points3(sets) ==
    UNION {{<<u>> \o p : p \in Points2(DictGet(sets, u))} : u \in KeySet(sets)}

\* C7: a row whose X, Y or SITE_NAME is missing (NaN) or non-numeric is
\* rejected on its own: process_data still runs to its end and updates the
\* canvas, and the theory, actual and mean points are those of the dataset
\* without the row.
C7_BadRowRejected ==
    window.has_last_df =>
      \A i \in 1..Len(window.last_df.rows) :
        BadRow(window.last_df.rows[i]) =>
          /\ CompletedBuild
          /\ event.result = "returned"
          /\ \E r \in {Rebuilt(DataFrame(window.last_df.columns,
                                         Without(window.last_df.rows, i)))} :
                /\ Points2(window.polygons) = Points2(r.polygons)
                /\ Points3(window.actual_polygons) = Points3(r.actual_polygons)
                /\ HasMean => Points2(window.mean_polygon) = Points2(r.mean_polygon)
                /\ canvas.theory_polygons # EmptyDict \/ r.polygons = EmptyDict

\* the required columns that dataset df lacks
MissingOf(df) ==
    {"GLASS_ID", "GLASS_END_TIME", "SITE_NAME", "X", "Y"} \ df.columns

\* the maps the window holds
WindowMaps(w) ==
    IF program = Visualizer
    THEN <<w.polygons, w.actual_polygons, w.offset_data, w.mean_polygon>>
    ELSE <<w.polygons, w.actual_polygons, w.offset_data>>

\* the polygons, point metadata and spatial index the canvas holds
CanvasGeometry(c) ==
    IF program = Visualizer
    THEN <<c.theory_polygons, c.actual_polygon_sets, c.mean_polygon,
           c.has_mean_polygon, c.point_metadata, c.point_kdtree,
           c.theory_lines, c.mean_lines, c.actual_points>>
    ELSE <<c.theory_polygons, c.actual_polygons>>

\* the step ran process_data on the dataset the window retains
RanProcessData ==
    /\ event'.handler \in {"on_clipboard_changed", "on_param_changed"}
    /\ window'.has_last_df

\* C6: when process_data is given a dataset that lacks any of the columns
\* GLASS_ID, GLASS_END_TIME, SITE_NAME, X, Y, the batch is aborted: the maps of
\* the window and the polygons, point metadata and spatial index of the
\* canvas are what they were before the call, and the status message names
\* every missing column.
C6_MissingColumnsAbort ==
    [][(RanProcessData /\ MissingOf(window'.last_df) # {}) =>
          /\ WindowMaps(window') = WindowMaps(window)
          /\ CanvasGeometry(canvas') = CanvasGeometry(canvas)
          /\ event'.result = "returned"
          /\ window'.statusBar.msg = "missing_columns"
          /\ {window'.statusBar.columns[i] :
                 i \in 1..Len(window'.statusBar.columns)}
               = MissingOf(window'.last_df)]_vars

\* a dataset without X and Y was pasted over a drawn geometry, which is
\* still there, and the status names two columns
C6_Witness ==
    /\ event.handler = "on_clipboard_changed"
    /\ window.has_last_df
    /\ Cardinality(MissingOf(window.last_df)) = 2
    /\ Len(window.statusBar.columns) = 2
    /\ window.polygons # EmptyDict
    /\ canvas.theory_polygons # EmptyDict

\* the canvas shows what process_data builds from df with the parameters of
\* the window
ShownIs(r) ==
    /\ r.result = "built"
    /\ IF program = Visualizer
       THEN /\ canvas.theory_polygons = r.polygons
            /\ canvas.actual_polygon_sets = r.actual_polygons
            /\ canvas.mean_polygon = r.mean_polygon
       ELSE /\ canvas.theory_polygons = M_ConvertShots(r.polygons, 1)
            /\ canvas.actual_polygons = M_ConvertUnits(r.actual_polygons, 1)

\* C8: once a dataset has been pasted, after every on_param_changed the
\* polygons the canvas shows are the ones built from the retained dataset
\* with the current design_scale, offset_scale and shot_separation, and the
\* canvas's copies of the parameters equal the window's.
C8_ParamChangeRebuilds ==
    (event.handler = "on_param_changed" /\ window.has_last_df) =>
       /\ canvas.design_scale = window.design_scale
       /\ canvas.offset_scale = window.offset_scale
       /\ canvas.shot_separation = window.shot_separation
       /\ program = Visualizer =>
             canvas.spec_x = window.spec_x /\ canvas.spec_y = window.spec_y
       /\ ShownIs(Rebuilt(window.last_df))

\* C9: a rebuild is all-or-nothing: whichever way process_data ended, the
\* theory, actual and mean maps of the window and those of the canvas belong
\* to the same build.
C9_AllOrNothing ==
    IF program = Visualizer
    THEN /\ canvas.theory_polygons = window.polygons
         /\ canvas.actual_polygon_sets = window.actual_polygons
         /\ canvas.mean_polygon = window.mean_polygon
    ELSE /\ canvas.theory_polygons = M_ConvertShots(window.polygons, 1)
         /\ canvas.actual_polygons = M_ConvertUnits(window.actual_polygons, 1)

EmptyGeometry ==
    /\ canvas.theory_polygons = EmptyDict
    /\ canvas.actual_polygon_sets = EmptyDict
    /\ canvas.mean_polygon = EmptyDict

\* C10: while the geometry is empty (before any dataset was processed, or
\* after a build that yields empty maps) redraw_plot (grid toggle),
\* auto_scale / reset_view, zoom_in, zoom_out, on_scroll and check_hover end
\* without raising and leave the geometry empty.
C10_EmptyStateValid ==
    ( /\ EmptyGeometry
      /\ event.handler \in {"on_grid_toggled", "reset_view", "zoom_in",
                            "zoom_out", "on_scroll", "on_mouse_move"} )
    => /\ event.result = "returned"
       /\ canvas.point_metadata = <<>>
       /\ canvas.theory_lines = <<>>

(***************************************************************************)
(* The hover specification: the geometry parameters changed in a fresh     *)
(* window of mapping_visualizer, datasets pasted, and the mouse moved, no  *)
(* button held, to positions at and around the plotted points              *)
(***************************************************************************)
HoverClipboard ==
    { DataFrame(AllColumns,
         <<Row("G1", "T1", Num(1), Num(1000), Num(2000), "POS_X1", Num(1)),
           Row("G1", "T1", Num(2), Num(-1500), Num(-2500), "POS_X1", Num(-1))>>),
      DataFrame(AllColumns,
         <<Row("G1", "T1", Num(1), Num(1000), Num(2000), "POS_Y1", Num(2)),
           Row("G2", "T2", Num(3), Num(3000), Num(-500), "POS_X1", Num(3)),
           Row("G2", "T2", Num(1), Num(1000), Num(2000), "POS_X1", Num(3))>>),
      DataFrame(AllColumns, <<>>) }

\* where the mouse is relative to a point: on it, nearer than
\* distance_threshold, at distance_threshold exactly (along an axis and
\* along the 3-4-5 diagonal), and farther
HoverDeltas ==
    { <<RInt(0), RInt(0)>>, <<Rat(2, 5), RInt(0)>>, <<Rat(1, 2), RInt(0)>>,
      <<Rat(3, 10), Rat(2, 5)>>, <<Rat(-2, 5), Rat(2, 5)>>, <<RInt(2), RInt(0)>> }

HoverPositions(c) ==
    {<<RInt(0), RInt(0)>>} \cup
    { <<RAdd(c.point_metadata[k].x, d[1]), RAdd(c.point_metadata[k].y, d[2])>> :
         k \in 1..Len(c.point_metadata), d \in HoverDeltas }

HoverPaste == \E df \in HoverClipboard : V_on_clipboard_changed(df)

HoverParamChange ==
    /\ ~window.has_last_df
    /\ \E sv \in GeometrySpins : V_on_param_changed(sv[1], sv[2])

HoverMove ==
    \/ \E pos \in HoverPositions(canvas) : V_on_mouse_move(TRUE, pos, "none")
    \/ V_on_mouse_move(FALSE, <<RInt(0), RInt(0)>>, "none")

NextHover == HoverPaste \/ HoverParamChange \/ HoverMove

SpecHover == InitView /\ [][NextHover]_vars

\* the canvas without the index: point_kdtree is None
Unindexed(c) == [c EXCEPT !.point_kdtree = [built |-> FALSE, coordinates |-> <<>>]]

\* what check_hover leaves on canvas c for the mouse at pos, on each of the
\* points its search may return
HoverOutcomes(c, pos) == {V_check_hover(c, pos, i) : i \in V_Nearest(c, pos)}

\* no point of c is nearer to pos than p
AtMinimumDistance(c, p, pos) ==
    \A k \in 1..Len(c.point_metadata) :
       RLeq(Dist2(p, pos), Dist2(<<c.point_metadata[k].x, c.point_metadata[k].y>>, pos))

\* C11: for a non-empty point set and every query position, the KDTree path
\* and the linear-scan path of check_hover report a hit in the same cases,
\* and a reported point is at the minimum distance from the query over all
\* points.
C11_IndexMatchesLinearScan ==
    Len(canvas.point_metadata) > 0 =>
       \A pos \in HoverPositions(canvas) :
          \A a \in HoverOutcomes(canvas, pos), b \in HoverOutcomes(Unindexed(canvas), pos) :
             /\ a.has_highlight = b.has_highlight
             /\ a.has_highlight =>
                   /\ AtMinimumDistance(canvas, a.highlight_xy, pos)
                   /\ AtMinimumDistance(canvas, b.highlight_xy, pos)

\* a hover over a point that shares its position with another, with queries
\* that hit and queries that miss
C11_Witness ==
    /\ event.handler = "on_mouse_move"
    /\ canvas.has_highlight
    /\ canvas.point_kdtree.built
    /\ \E pos \in HoverPositions(canvas) :
          /\ Cardinality(V_Nearest(canvas, pos)) > 1
          /\ \A b \in HoverOutcomes(Unindexed(canvas), pos) : b.has_highlight
    /\ \E pos \in HoverPositions(canvas) :
          \A b \in HoverOutcomes(Unindexed(canvas), pos) : ~b.has_highlight

\* some point of c is at a distance from pos below 0.5 (strictly) / of 0.5
\* or less, the distances compared by their squares
PointWithin(c, pos) ==
    \E k \in 1..Len(c.point_metadata) :
       RLess(Dist2(<<c.point_metadata[k].x, c.point_metadata[k].y>>, pos), Rat(1, 4))

PointWithinOrAt(c, pos) ==
    \E k \in 1..Len(c.point_metadata) :
       RLeq(Dist2(<<c.point_metadata[k].x, c.point_metadata[k].y>>, pos), Rat(1, 4))

\* the outcome is a hit on a nearest point of c, with its tool tip shown
HitOnNearest(c, a, pos) ==
    /\ a.has_highlight
    /\ a.tooltip.kind # "hidden"
    /\ AtMinimumDistance(c, a.highlight_xy, pos)
    /\ \E k \in 1..Len(c.point_metadata) :
          /\ a.highlight_xy = <<c.point_metadata[k].x, c.point_metadata[k].y>>
          /\ a.tooltip.shot = c.point_metadata[k].shot

\* C12 as claimed: the hit test of check_hover returns the nearest point
\* when its distance is less than or equal to the threshold, equality
\* included, and no hit when it is greater.
C12_HitWithinOrAtThreshold ==
    Len(canvas.point_metadata) > 0 =>
       \A pos \in HoverPositions(canvas) : \A a \in HoverOutcomes(canvas, pos) :
          IF PointWithinOrAt(canvas, pos)
          THEN HitOnNearest(canvas, a, pos)
          ELSE ~a.has_highlight

\* C12 as amended: the hit test returns the nearest point when its distance
\* is strictly less than distance_threshold (0.5 data units), and no hit,
\* with the tool tip hidden, when the distance is equal or greater.
C12_HitBelowThreshold ==
    Len(canvas.point_metadata) > 0 =>
       \A pos \in HoverPositions(canvas) : \A a \in HoverOutcomes(canvas, pos) :
          IF PointWithin(canvas, pos)
          THEN HitOnNearest(canvas, a, pos)
          ELSE ~a.has_highlight /\ a.tooltip.kind = "hidden"

\* the mouse was moved to a point at the threshold exactly and nothing is
\* highlighted, while other positions hit and others are farther
C12_Witness ==
    /\ event.handler = "on_mouse_move"
    /\ ~canvas.has_highlight
    /\ canvas.tooltip.kind = "hidden"
    /\ \E pos \in HoverPositions(canvas) :
          /\ PointWithinOrAt(canvas, pos) /\ ~PointWithin(canvas, pos)
          /\ canvas \in HoverOutcomes(canvas, pos)
    /\ \E pos \in HoverPositions(canvas) : PointWithin(canvas, pos)
    /\ \E pos \in HoverPositions(canvas) : ~PointWithinOrAt(canvas, pos)

\* a point of c with no point to its right, and whether the mouse at the
\* distance d to the right of it, level with it, hits
Rightmost(c) ==
    CHOOSE k \in 1..Len(c.point_metadata) :
       \A j \in 1..Len(c.point_metadata) : RLeq(c.point_metadata[j].x, c.point_metadata[k].x)

ProbeHits(c, d) ==
    \A a \in HoverOutcomes(c, <<RAdd(c.point_metadata[Rightmost(c)].x, d),
                                c.point_metadata[Rightmost(c)].y>>) :
       a.has_highlight

\* the extent of the view along x: the axes, of a fixed width in pixels,
\* show this many data units, so the view scale is inversely proportional
XExtent(c) == RSub(c.xlim[2], c.xlim[1])

ProbeDistances == {Rat(2, 5), Rat(9, 20), Rat(11, 20), Rat(3, 5)}

\* C13: the hover tolerance is fixed in screen pixels: when a zoom changes
\* the view scale by a factor f, the data-space radius of check_hover is
\* divided by f, so the mouse at the same on-screen distance from a point
\* (data distance d before, d / f after) hits after the zoom exactly when
\* it hit before.
C13_HoverRadiusInPixels ==
    [][ ( /\ event'.handler \in {"zoom_in", "zoom_out", "on_scroll"}
          /\ Len(canvas.point_metadata) > 0
          /\ canvas'.point_metadata = canvas.point_metadata )
        => \A d \in ProbeDistances :
              ProbeHits(canvas, d)
                 = ProbeHits(canvas', RDiv(RMul(d, XExtent(canvas')), XExtent(canvas))) ]_vars

(***************************************************************************)
(* Zoom                                                                    *)
(***************************************************************************)
\* where the data coordinate x is displayed along an axis with the limits
\* lim, as a fraction of the length of the axis
RelPos(lim, x) == RDiv(RSub(x, lim[1]), RSub(lim[2], lim[1]))

Extent(lim) == RSub(lim[2], lim[1])

Centre(lim) == RDiv(RAdd(lim[1], lim[2]), RInt(2))

InView(c, x, y) ==
    /\ RLeq(c.xlim[1], x) /\ RLeq(x, c.xlim[2])
    /\ RLeq(c.ylim[1], y) /\ RLeq(y, c.ylim[2])

\* both extents of view c2 are those of view c divided by factor
ExtentsDivided(c, c2, factor) ==
    /\ Extent(c2.xlim) = RDiv(Extent(c.xlim), factor)
    /\ Extent(c2.ylim) = RDiv(Extent(c.ylim), factor)

\* C14: zoom keeps its anchor fixed: on_scroll with the cursor inside the
\* axes, in either wheel direction, leaves the data coordinate of the cursor
\* at the display position it had; zoom_in and zoom_out leave the data
\* coordinate of the centre of the viewport at the centre; in both cases the
\* x range and the y range are divided by the same factor (1.1 or 1/1.1 for
\* the wheel, 1.2 or 1/1.2 for the buttons).
C14_ZoomKeepsAnchor ==
    [][ /\ ( /\ event'.handler = "on_scroll"
             /\ event'.inaxes
             /\ InView(canvas, event'.xdata, event'.ydata) )
           => /\ RelPos(canvas'.xlim, event'.xdata) = RelPos(canvas.xlim, event'.xdata)
              /\ RelPos(canvas'.ylim, event'.ydata) = RelPos(canvas.ylim, event'.ydata)
              /\ ExtentsDivided(canvas, canvas',
                                IF event'.button = "up" THEN Rat(11, 10) ELSE Rat(10, 11))
        /\ event'.handler \in {"zoom_in", "zoom_out"}
           => /\ Centre(canvas'.xlim) = Centre(canvas.xlim)
              /\ Centre(canvas'.ylim) = Centre(canvas.ylim)
              /\ ExtentsDivided(canvas, canvas',
                                IF event'.handler = "zoom_in" THEN Rat(6, 5) ELSE Rat(5, 6))
      ]_vars

\* the wheel was turned with the cursor inside the axes and away from their
\* centre, in a view that a zoom had already changed
C14_Witness ==
    /\ event.handler = "on_scroll"
    /\ event.inaxes
    /\ event.button = "down"
    /\ view_steps = 2
    /\ Len(canvas.point_metadata) > 0
    /\ InView(canvas, event.xdata, event.ydata)
    /\ RelPos(canvas.xlim, event.xdata) # Rat(1, 2)
    /\ Centre(canvas.xlim) # Centre(V_auto_scale(canvas).xlim)
    /\ Extent(canvas.xlim) # RMul(Extent(V_auto_scale(canvas).xlim), Rat(11, 10))

(***************************************************************************)
(* The load specification: a window of either program constructed over a   *)
(* seq.csv of up to MaxCsvRows rows, some of them malformed, and datasets  *)
(* pasted into it. The event of the construction holds the file read.      *)
(***************************************************************************)
MaxCsvRows == 3

\* rows of seq.csv: three well-formed ones, a second one for Site 1, one with
\* a Site that is not an integer and one without a Shot
CsvRowPool ==
    { CsvRow(Num(1), Num(1), Num(1)), CsvRow(Num(2), Num(1), Num(2)),
      CsvRow(Num(3), Num(2), Num(1)), CsvRow(Num(1), Num(2), Num(2)),
      CsvRow(StrCell, Num(1), Num(1)), CsvRow(Num(2), NaNCell, Num(1)) }

LoadCsvFiles == UNION {[1..n -> CsvRowPool] : n \in 0..MaxCsvRows}

InitLoad ==
    /\ \E csv \in LoadCsvFiles :
          /\ \/ /\ program = Visualizer
                /\ window = V_WindowInit(load_seq_data(csv))
                /\ canvas = V_CanvasInit(load_seq_data(csv))
             \/ /\ program = Matplotlib
                /\ window = M_WindowInit(load_seq_data(csv))
                /\ canvas = M_CanvasInit
          /\ event = [handler |-> "__init__", result |-> "returned", seq_csv |-> csv]
    /\ view_steps = 0

LoadPaste ==
    \E df \in HoverClipboard :
       \/ V_on_clipboard_changed(df)
       \/ M_on_clipboard_changed(df)

NextLoad == LoadPaste

SpecLoad == InitLoad /\ [][NextLoad]_vars

\* a row of seq.csv whose Site, Shot and Seq are all integers
WellFormed(row) == row.Site.t = "num" /\ row.Shot.t = "num" /\ row.Seq.t = "num"

\* C15: load_seq_data fails per row: when the load ends every well-formed
\* row of the mapping source, before and after a row with a missing or
\* non-integer field, is present in the registry, and the rows skipped leave
\* nothing in it.
C15_LoadFailsPerRow ==
    event.handler = "__init__" =>
       /\ \A i \in 1..Len(event.seq_csv) :
             WellFormed(event.seq_csv[i]) => DictHas(window.seq_data, event.seq_csv[i].Site.v)
       /\ KeySet(window.seq_data)
             = {event.seq_csv[i].Site.v : i \in {j \in 1..Len(event.seq_csv) : WellFormed(event.seq_csv[j])}}

(***************************************************************************)
(* Units                                                                   *)
(***************************************************************************)
\* the polygon {shot: {seq: point}} of a unit holds at least one point
HasUnitPoint(unit) == \E i \in 1..Len(unit) : Len(unit[i][2]) > 0

\* C16: an actual polygon exists only for unit keys with at least one
\* resolved site: after process_data every unit key present in
\* actual_polygons maps to at least one (shot, seq) point (stated for the
\* datasets whose rows are all well formed, where only an unregistered site
\* can leave a unit without points).
C16_ActualUnitsHavePoints ==
    ( /\ CompletedBuild
      /\ \A k \in 1..Len(window.last_df.rows) : ~BadRow(window.last_df.rows[k]) ) =>
       \A i \in 1..Len(window.actual_polygons) : HasUnitPoint(window.actual_polygons[i][2])

(***************************************************************************)
(* The unit specification: the first dataset pasted into a fresh window of *)
(* either program, its rows well formed: rows of units whose GLASS_ID or   *)
(* GLASS_END_TIME contain an underscore, a row with a PARAM_NAME that is   *)
(* not an offset and its own X and Y, and a row without PARAM_NAME and     *)
(* PARAM_VALUE                                                             *)
(***************************************************************************)
UnitRowPool ==
    { Row("A_B", "C", Num(1), Num(1000), Num(2000), "POS_X1", Num(1)),
      Row("A", "B_C", Num(1), Num(1000), Num(2000), "POS_X1", Num(3)),
      Row("A", "C", Num(2), Num(-1500), Num(-2500), "POS_X1", Num(-1)),
      Row("A_B", "C", Num(2), Num(-1500), Num(-2500), "POS_Y1", Num(2)),
      Row("A", "C", Num(2), Num(3000), Num(-500), "OTHER", Num(7)),
      Row("A", "C", Num(1), Num(1000), Num(2000), NoName, NaNCell) }

MaxUnitRows == 2

UnitRowSeqs == UNION {[1..n -> UnitRowPool] : n \in 0..MaxUnitRows}

UnitPaste ==
    /\ ~window.has_last_df
    /\ \E rows \in UnitRowSeqs :
          \/ V_on_clipboard_changed(DataFrame(AllColumns, rows))
          \/ M_on_clipboard_changed(DataFrame(AllColumns, rows))

NextUnits == GeomParamChange \/ UnitPaste

SpecUnits == Init /\ [][NextUnits]_vars

\* the (GLASS_ID, GLASS_END_TIME) pairs of the rows that carry an offset
MeasuredUnits(rows) ==
    { <<rows[k].GLASS_ID, rows[k].GLASS_END_TIME>> :
         k \in {j \in 1..Len(rows) : /\ rows[j].PARAM_NAME \in {"POS_X1", "POS_Y1"}
                                     /\ rows[j].PARAM_VALUE.t = "num"
                                     /\ rows[j].SITE_NAME.t = "num"} }

\* C17: units are identified by the pair (glass_id, end_time): rows belong
\* to the same unit key if and only if they have the same GLASS_ID and the
\* same GLASS_END_TIME, so after process_data there are as many unit keys,
\* and as many actual polygons, as there are distinct pairs among the rows
\* that carry an offset.
C17_UnitsAreIdPairs ==
    CompletedBuild =>
       /\ Cardinality(KeySet(window.offset_data))
             = Cardinality(MeasuredUnits(window.last_df.rows))
       /\ Cardinality(KeySet(window.actual_polygons))
             = Cardinality(MeasuredUnits(window.last_df.rows))

(***************************************************************************)
(* Auto-fit                                                                *)
(***************************************************************************)
\* the theory and actual points of the build
BuiltPoints ==
    {p[3] : p \in Points2(window.polygons)} \cup {p[4] : p \in Points3(window.actual_polygons)}

\* the limits lim of an axis around the coordinates cs of the points: of
\* positive extent, containing every coordinate and, when all coordinates
\* are the same, 10% of 1 data unit to either side of it
FitsAxis(lim, cs) ==
    /\ RLess(lim[1], lim[2])
    /\ \A v \in cs : RLeq(lim[1], v) /\ RLeq(v, lim[2])
    /\ \A v \in cs : cs = {v} => lim = <<RSub(v, Rat(1, 10)), RAdd(v, Rat(1, 10))>>

\* C18: auto-fit never produces a degenerate view: after auto-fit over at
\* least one point (auto_scale in mapping_visualizer, the limits of
\* plot_data in mapping_matplotlib) the x range and the y range have
\* strictly positive extent and contain every theory and actual point, a
\* zero extent having been replaced by 1 data unit before the margin.
C18_AutoFitNotDegenerate ==
    (CompletedBuild /\ BuiltPoints # {}) =>
       /\ FitsAxis(canvas.xlim, {p[1] : p \in BuiltPoints})
       /\ FitsAxis(canvas.ylim, {p[2] : p \in BuiltPoints})

(***************************************************************************)
(* Unresolvable sites and unrecognized parameters                          *)
(***************************************************************************)
\* a row whose SITE_NAME is an integer that seq_data does not have
Unresolvable(row) ==
    row.SITE_NAME.t = "num" /\ ~DictHas(window.seq_data, row.SITE_NAME.v)

\* the theory, actual and mean points of the window are those of build r
SamePointsAs(r) ==
    /\ Points2(window.polygons) = Points2(r.polygons)
    /\ Points3(window.actual_polygons) = Points3(r.actual_polygons)
    /\ HasMean => Points2(window.mean_polygon) = Points2(r.mean_polygon)

\* The site specification: the first dataset pasted into a fresh window of
\* either program, up to MaxSiteRows well-formed rows of two units, one row
\* with a site the registry does not have
SiteRowPool ==
    { Row("G1", "T1", Num(9), Num(5000), Num(5000), "POS_X1", Num(2)),
      Row("G2", "T2", Num(1), Num(1000), Num(2000), "POS_X1", Num(3)),
      Row("G1", "T1", Num(2), Num(-1500), Num(-2500), "POS_X1", Num(-1)),
      Row("G1", "T1", Num(1), Num(1000), Num(2000), "POS_Y1", Num(2)) }

MaxSiteRows == 3

SiteRowSeqs == UNION {[1..n -> SiteRowPool] : n \in 0..MaxSiteRows}

SitePaste ==
    /\ ~window.has_last_df
    /\ \E rows \in SiteRowSeqs :
          \/ V_on_clipboard_changed(DataFrame(AllColumns, rows))
          \/ M_on_clipboard_changed(DataFrame(AllColumns, rows))

NextSites == GeomParamChange \/ SitePaste

SpecSites == Init /\ [][NextSites]_vars

\* C19 as claimed: an unresolvable site is skipped without failing the
\* batch: a row whose SITE_NAME is not in the registry adds no point to the
\* theory, actual or mean maps, the points are those of the dataset without
\* the row, and process_data ends as it does without the row.
C19_UnresolvableSiteSkipped ==
    window.has_last_df =>
      \A i \in 1..Len(window.last_df.rows) :
        Unresolvable(window.last_df.rows[i]) =>
          \E r \in {Rebuilt(DataFrame(window.last_df.columns,
                                      Without(window.last_df.rows, i)))} :
             /\ SamePointsAs(r)
             /\ r.result = "built" => CompletedBuild /\ event.result = "returned"

\* the points of a {shot: {seq: point}} map at the (shot, seq) of exactly
\* one site of the registry
AtUnshared(pts) ==
    {p \in pts : Cardinality({s \in KeySet(window.seq_data) :
                                 DictGet(window.seq_data, s) = <<p[1], p[2]>>}) = 1}

\* C19 as amended: the same of the theory and the actual points, and of the
\* mean points at every (shot, seq) that only one site of the registry has.
C19_UnresolvableSiteSkippedUnshared ==
    window.has_last_df =>
      \A i \in 1..Len(window.last_df.rows) :
        Unresolvable(window.last_df.rows[i]) =>
          \E r \in {Rebuilt(DataFrame(window.last_df.columns,
                                      Without(window.last_df.rows, i)))} :
             /\ Points2(window.polygons) = Points2(r.polygons)
             /\ Points3(window.actual_polygons) = Points3(r.actual_polygons)
             /\ HasMean => AtUnshared(Points2(window.mean_polygon))
                              = AtUnshared(Points2(r.mean_polygon))
             /\ r.result = "built" => CompletedBuild /\ event.result = "returned"

\* a dataset with a row of an unregistered site first and rows of two
\* registered sites in two units was built, and shows theory, actual and
\* mean points
C19_Witness ==
    /\ CompletedBuild
    /\ event.result = "returned"
    /\ Len(window.last_df.rows) = 3
    /\ Unresolvable(window.last_df.rows[1])
    /\ window.last_df.rows[1].PARAM_NAME = "POS_X1"
    /\ window.last_df.rows[2].SITE_NAME # window.last_df.rows[3].SITE_NAME
    /\ window.last_df.rows[2].GLASS_ID # window.last_df.rows[3].GLASS_ID
    /\ Len(window.offset_data) = 2
    /\ Points2(window.polygons) # {}
    /\ Points3(window.actual_polygons) # {}
    /\ HasMean
    /\ AtUnshared(Points2(window.mean_polygon)) # {}

\* a row the offset pass does not recognize: PARAM_NAME is neither POS_X1
\* nor POS_Y1, or PARAM_NAME or PARAM_VALUE is missing
Unrecognized(row) ==
    row.PARAM_NAME \notin {"POS_X1", "POS_Y1"} \/ row.PARAM_VALUE.t = "nan"

\* the (site, (x, y)) entries of a coordinate map
Entries(d) == {d[k] : k \in 1..Len(d)}

DragMoveStep ==
    /\ event'.handler = "on_mouse_move"
    /\ event'.inaxes
    /\ event'.button \in {"left", "middle"}
    /\ canvas.pressed

\* the amount by which the limits of one axis moved
Shift(lim, lim2) == RSub(lim2[1], lim[1])

\* C21: a drag move shifts both ends of xlim by one amount and both ends of
\* ylim by one amount, so that the width and the height of the view are
\* unchanged, and it changes none of the polygon maps, the point metadata or
\* the spatial index
C21_PanKeepsScale ==
    [][DragMoveStep =>
         /\ RSub(canvas'.xlim[2], canvas.xlim[2]) = Shift(canvas.xlim, canvas'.xlim)
         /\ RSub(canvas'.ylim[2], canvas.ylim[2]) = Shift(canvas.ylim, canvas'.ylim)
         /\ Extent(canvas'.xlim) = Extent(canvas.xlim)
         /\ Extent(canvas'.ylim) = Extent(canvas.ylim)
         /\ canvas'.theory_polygons = canvas.theory_polygons
         /\ canvas'.actual_polygon_sets = canvas.actual_polygon_sets
         /\ canvas'.mean_polygon = canvas.mean_polygon
         /\ canvas'.point_metadata = canvas.point_metadata
         /\ canvas'.point_kdtree = canvas.point_kdtree]_vars

\* a drag move over a drawn dataset has moved the view away from the limits
\* auto_scale gave it
C21_Witness ==
    /\ event.handler = "on_mouse_move"
    /\ event.inaxes
    /\ event.button = "left"
    /\ canvas.pressed
    /\ view_steps = 1
    /\ Len(canvas.point_metadata) > 0
    /\ canvas.xlim # V_auto_scale(canvas).xlim
    /\ Extent(canvas.xlim) = Extent(V_auto_scale(canvas).xlim)

\* the data coordinate at fraction f of the width of an axis with limits lim
DataAt(lim, f) == RAdd(lim[1], RMul(f, Extent(lim)))

\* the cursor of mouse event e is on the axes
OnAxes(e) ==
    /\ RLeq(RInt(0), e.x) /\ RLeq(e.x, RInt(1))
    /\ RLeq(RInt(0), e.y) /\ RLeq(e.y, RInt(1))

\* the last event was the press that started the drag now active, or a move
\* of that drag
DragEvent ==
    /\ event.handler \in {"on_mouse_press", "on_mouse_move"}
    /\ event.inaxes
    /\ event.button \in {"left", "middle"}
    /\ canvas.pressed
    /\ OnAxes(event)

\* C24: during a drag the data coordinate under the cursor after a move
\* event is the one that was under the cursor after the event before it (by
\* induction the one under the cursor at press time), and a move event at
\* the display position of the event before it leaves the limits unchanged
C24_DragKeepsPointUnderCursor ==
    [][(DragEvent /\ DragMoveStep /\ OnAxes(event')) =>
         /\ DataAt(canvas'.xlim, event'.x) = DataAt(canvas.xlim, event.x)
         /\ DataAt(canvas'.ylim, event'.y) = DataAt(canvas.ylim, event.y)
         /\ (event'.x = event.x /\ event'.y = event.y) =>
                (canvas'.xlim = canvas.xlim /\ canvas'.ylim = canvas.ylim)]_vars

\* the step is a press that starts a drag: in the axes, left or middle button
DragPressStep ==
    /\ event'.handler = "on_mouse_press"
    /\ event'.inaxes
    /\ event'.button \in {"left", "middle"}

\* the limits of the view are the same before and after the step
LimitsKept == canvas'.xlim = canvas.xlim /\ canvas'.ylim = canvas.ylim

\* C29: a drag is active (a press is stored) exactly from a press of the left
\* or middle button in the axes to the next release; a mouse move changes the
\* limits of the view only while a drag is active; a move after a release,
\* and a move after a press outside the axes or of another button that found
\* no drag active, leave the limits unchanged
C29_MoveChangesViewOnlyInDrag ==
    [][/\ (~canvas.pressed /\ canvas'.pressed) => DragPressStep
       /\ (canvas.pressed /\ ~canvas'.pressed) => event'.handler = "on_mouse_release"
       /\ DragPressStep => canvas'.pressed
       /\ event'.handler = "on_mouse_release" => ~canvas'.pressed
       /\ event'.handler = "on_mouse_move" =>
            /\ ~LimitsKept => (canvas.pressed /\ event'.inaxes
                               /\ event'.button \in {"left", "middle"})
            /\ event.handler = "on_mouse_release" => LimitsKept
            /\ (/\ event.handler = "on_mouse_press"
                /\ ~(event.inaxes /\ event.button \in {"left", "middle"})
                /\ ~canvas.pressed) => LimitsKept]_vars

\* after a drag that moved the view was released, a move with the left button
\* reported in the axes ran the hover check
C29_Witness ==
    /\ event.handler = "on_mouse_move"
    /\ event.inaxes
    /\ event.button = "left"
    /\ ~canvas.pressed
    /\ view_steps = 1
    /\ Len(canvas.point_metadata) > 0
    /\ canvas.xlim # V_auto_scale(canvas).xlim

(***************************************************************************)
(* Duplicate sites                                                         *)
(***************************************************************************)
\* the rows of seq.csv file csv that carry Site s
Carrying(csv, s) == {i \in 1..Len(csv) : WellFormed(csv[i]) /\ csv[i].Site.v = s}

\* the last row of csv that carries Site s
LastCarrying(csv, s) ==
    CHOOSE i \in Carrying(csv, s) : \A j \in Carrying(csv, s) : j <= i

\* C22: after load_seq_data each site maps to the (shot, seq) of the last row
\* of seq.csv carrying that Site, and the registry has one entry per distinct
\* Site
C22_LastDuplicateWins ==
    event.handler = "__init__" =>
       /\ \A i \in 1..Len(event.seq_csv) :
             WellFormed(event.seq_csv[i]) =>
                \E k \in 1..Len(window.seq_data) :
                   /\ window.seq_data[k][1] = event.seq_csv[i].Site.v
                   /\ window.seq_data[k][2]
                        = <<event.seq_csv[LastCarrying(event.seq_csv, event.seq_csv[i].Site.v)].Shot.v,
                            event.seq_csv[LastCarrying(event.seq_csv, event.seq_csv[i].Site.v)].Seq.v>>
       /\ Len(window.seq_data)
            = Cardinality({event.seq_csv[i].Site.v :
                             i \in {j \in 1..Len(event.seq_csv) : WellFormed(event.seq_csv[j])}})

(***************************************************************************)
(* The spatial index and the point metadata                                *)
(***************************************************************************)
\* the step is a mouse move in which check_hover queries point_kdtree: the
\* cursor is in the axes, no drag is handled, there are points and a tree
HoverQueryStep ==
    /\ event'.handler = "on_mouse_move"
    /\ event'.inaxes
    /\ ~(canvas.pressed /\ event'.button \in {"left", "middle"})
    /\ Len(canvas.point_metadata) > 0
    /\ canvas.point_kdtree.built

\* C23: whenever check_hover queries point_kdtree, the tree holds the
\* coordinates of the current point_metadata, entry by entry in the same
\* order, and a point the query reports is at an index of point_metadata
\* whose entry has the coordinates the tree returned
C23_IndexBuiltFromMetadata ==
    [][HoverQueryStep =>
         /\ Len(canvas.point_kdtree.coordinates) = Len(canvas.point_metadata)
         /\ \A i \in 1..Len(canvas.point_metadata) :
               canvas.point_kdtree.coordinates[i]
                  = <<canvas.point_metadata[i].x, canvas.point_metadata[i].y>>
         /\ canvas'.has_highlight =>
               \E i \in 1..Len(canvas.point_metadata) :
                  /\ canvas.point_kdtree.coordinates[i] = canvas'.highlight_xy
                  /\ <<canvas.point_metadata[i].x, canvas.point_metadata[i].y>>
                        = canvas'.highlight_xy]_vars

\* a hover has found a point of the three-row dataset through the tree
C23_Witness ==
    /\ event.handler = "on_mouse_move"
    /\ canvas.has_highlight
    /\ canvas.point_kdtree.built
    /\ window.has_last_df
    /\ Len(window.last_df.rows) = 3

(***************************************************************************)
(* The highlight                                                           *)
(***************************************************************************)
\* C25: whenever highlight_point is not None it refers to an artist that is
\* on the axes, after any interleaving of hover events with redraws
C25_HighlightOnAxes == canvas.has_highlight => canvas.highlight_on_axes

(***************************************************************************)
(* The information shown for a point                                       *)
(*                                                                         *)
(* The pick specification: datasets pasted into either window, the mouse   *)
(* moved over the points of mapping_visualizer and the points of the lines *)
(* of mapping_matplotlib clicked                                           *)
(***************************************************************************)
PickPaste ==
    \E df \in HoverClipboard :
       \/ V_on_clipboard_changed(df)
       \/ M_on_clipboard_changed(df)

\* a click on one of the first three points of a theory line or of a line of
\* one of the units
Pick ==
    \E shot \in 1..2, ind \in 0..2 :
       \/ M_on_pick(TRUE, NoneKey, shot, ind)
       \/ \E glass_key \in {"G1_T1", "G2_T2"} : M_on_pick(FALSE, glass_key, shot, ind)

NextPick == PickPaste \/ (program = Visualizer /\ HoverMove) \/ Pick

SpecPick == InitGui /\ [][NextPick]_vars

\* no two sites of the registry share a (shot, seq)
Injective(seq_data) ==
    \A i, j \in 1..Len(seq_data) : seq_data[i][2] = seq_data[j][2] => i = j

\* what is to be shown for the point of site s: the original coordinates for
\* a theory point, the offsets of s in the unit for an actual point of a unit
SiteDetail(c, is_theory, glass_key, s) ==
    IF is_theory THEN DictGet(c.original_coords, s)
    ELSE <<DictGetOr(DictGet(DictGet(c.offset_values, glass_key), s), "POS_X1", RInt(0)),
           DictGetOr(DictGet(DictGet(c.offset_values, glass_key), s), "POS_Y1", RInt(0))>>

\* the {seq: point} dict from which the picked line was drawn
PickedPoints(e) ==
    IF e.is_theory THEN DictGet(window.polygons, e.shot)
    ELSE DictGet(DictGet(window.actual_polygons, e.glass_key), e.shot)

\* the seq of the picked point: the points of a line are in ascending seq,
\* followed by the first point again
PickedSeq(e) ==
    IF e.ind < Len(PickedPoints(e))
    THEN SortedSet(KeySet(PickedPoints(e)))[e.ind + 1]
    ELSE SortedSet(KeySet(PickedPoints(e)))[1]

\* C26: with a registry in which no two sites share a (shot, seq), the
\* information shown for a hovered (mapping_visualizer) or picked
\* (mapping_matplotlib) theory point or actual point of a unit is that of the
\* site whose registry entry is the (shot, seq) of the point: its original
\* coordinates, or its offsets in that unit
C26_InfoOfPointsSite ==
    [][Injective(window.seq_data) =>
         /\ (event'.handler = "on_pick") =>
               \E s \in KeySet(window.seq_data) :
                  /\ DictGet(window.seq_data, s) = <<event'.shot, PickedSeq(event')>>
                  /\ canvas'.annotation_text.detail
                       = SiteDetail(canvas, event'.is_theory, event'.glass_key, s)
         /\ (/\ HoverQueryStep
             /\ canvas'.has_highlight
             /\ canvas'.tooltip.kind \in {"theory", "actual"}) =>
               \E i \in 1..Len(canvas.point_metadata) :
                  \E s \in KeySet(window.seq_data) :
                     /\ <<canvas.point_metadata[i].x, canvas.point_metadata[i].y>>
                           = canvas'.highlight_xy
                     /\ canvas.point_metadata[i].is_theory
                           = (canvas'.tooltip.kind = "theory")
                     /\ canvas.point_metadata[i].glass_key = canvas'.tooltip.glass
                     /\ DictGet(window.seq_data, s)
                           = <<canvas.point_metadata[i].shot, canvas.point_metadata[i].seq>>
                     /\ canvas'.tooltip.site = s
                     /\ canvas'.tooltip.detail
                           = SiteDetail(canvas, canvas.point_metadata[i].is_theory,
                                        canvas.point_metadata[i].glass_key, s)]_vars

(***************************************************************************)
(* Mean points and the view                                                *)
(***************************************************************************)
\* the points of a {shot: {seq: point}} dict
PointsOf(polygon) ==
    UNION {{polygon[i][2][j][2] : j \in 1..Len(polygon[i][2])} : i \in 1..Len(polygon)}

\* point p is inside the limits of the view of canvas c
InLimits(c, p) ==
    /\ RLeq(c.xlim[1], p[1]) /\ RLeq(p[1], c.xlim[2])
    /\ RLeq(c.ylim[1], p[2]) /\ RLeq(p[2], c.ylim[2])

\* C27: with a registry in which no two sites share a (shot, seq), after
\* auto_scale every mean point lies inside the view limits, although the
\* bounds are computed from theory and actual points only
C27_MeanPointsInView ==
    (program = Visualizer /\ Injective(window.seq_data)) =>
        \A p \in PointsOf(canvas.mean_polygon) : InLimits(canvas, p)

\* a mean point that is neither a theory point nor an actual point of a unit
\* has been drawn
C27_Witness ==
    /\ program = Visualizer
    /\ Injective(window.seq_data)
    /\ event.handler = "on_clipboard_changed"
    /\ \E p \in PointsOf(canvas.mean_polygon) :
          \A i \in 1..Len(canvas.point_metadata) :
             canvas.point_metadata[i].glass_key # MeanKey =>
                <<canvas.point_metadata[i].x, canvas.point_metadata[i].y>> # p

(***************************************************************************)
(* The two variants                                                        *)
(***************************************************************************)
\* two {shot: {seq: point}} dicts have the same keys and the same points
SamePolygons(p, q) ==
    /\ KeySet(p) = KeySet(q)
    /\ \A shot \in KeySet(p) :
          /\ KeySet(DictGet(p, shot)) = KeySet(DictGet(q, shot))
          /\ \A seq \in KeySet(DictGet(p, shot)) :
                DictGet(DictGet(p, shot), seq) = DictGet(DictGet(q, shot), seq)

\* two {unit: {shot: {seq: point}}} dicts have the same keys and points
SamePolygonSets(a, b) ==
    /\ KeySet(a) = KeySet(b)
    /\ \A glass_key \in KeySet(a) :
          SamePolygons(DictGet(a, glass_key), DictGet(b, glass_key))

\* process_data of the other variant, run on the registry, the parameters and
\* the dataset of the window
OtherVariant ==
    IF program = Visualizer THEN M_process_data(window, window.last_df)
    ELSE V_process_data(window, window.last_df)

\* C28: for the same registry, dataset and (design_scale, offset_scale,
\* shot_separation), process_data of the two variants abort on the same
\* datasets and otherwise produce theory maps with the same keys and
\* coordinates and actual maps with the same unit keys, (shot, seq) keys and
\* coordinates
C28_VariantsAgree ==
    (window.has_last_df /\ event.handler = "on_clipboard_changed") =>
       /\ (event.result = "caught") <=> (OtherVariant.result = "raised")
       /\ (window.statusBar.msg \in {"missing_columns", "missing_param_columns"})
             <=> (OtherVariant.result \in {"missing", "missing_param"})
       /\ OtherVariant.result = "built" =>
             /\ SamePolygons(window.polygons, OtherVariant.polygons)
             /\ SamePolygonSets(window.actual_polygons, OtherVariant.actual_polygons)

\* a dataset with two units has been built, and the theory map has a point
C28_Witness ==
    /\ window.has_last_df
    /\ event.handler = "on_clipboard_changed"
    /\ event.result = "returned"
    /\ OtherVariant.result = "built"
    /\ Len(window.actual_polygons) = 2
    /\ Len(window.polygons) > 0

====
